---- MODULE Spec2Model ----
(***************************************************************************)
(* No-dues clearance workflow: the employee routes (submit-no-dues, the    *)
(* four save-* routes, final-submit) over the whole-collection JSON store  *)
(* pending_forms.json, and the aggregation helper getLatestFormForEmployee. *)
(*                                                                         *)
(* Time is the millisecond clock read by Date.now() / new Date(): a        *)
(* request handler runs to completion at one clock reading, and the clock  *)
(* advances between requests only when Tick fires, so two requests can be  *)
(* served within the same millisecond.  An ISO timestamp produced by       *)
(* toISOString() and read back by new Date(..) denotes the same            *)
(* millisecond, so timestamps are kept as the millisecond number.          *)
(***************************************************************************)
EXTENDS Integers, Sequences, FiniteSets, TLC

VARIABLES
    pendingFile,   \* content of ./data/pending_forms.json
    now,           \* the millisecond clock
    served,        \* number of requests served so far
    req,           \* the last request served
    resp,          \* the response of the last request, with what it wrote to
                   \* req.session.user (formId, applicationStatus)
    fnArgs,        \* arguments of a call of getLatestFormForEmployee
    fnResult       \* what that call returned

vars == <<pendingFile, now, served, req, resp, fnArgs, fnResult>>

----------------------------------------------------------------------------
(* Bounds *)

MaxForms == 3      \* cases the collection may hold
MaxTime == 2       \* last clock reading
MaxRequests == 4   \* requests served in a behaviour
MaxLatestLen == 3  \* length of the collection handed to getLatestFormForEmployee

Employees == {"E1", "E2"}
NO_SESSION == ""                  \* req.session.user is missing
Users == Employees \cup {NO_SESSION}

----------------------------------------------------------------------------
(* Values *)

undefined == "undefined"          \* a missing property / null (of a string-valued field)
NoDate == 0                       \* a missing timestamp
null == {undefined}               \* allowedStatuses = null
noApproval == <<>>                \* hodApproval: null

\* A JSON file: missing, an array of cases, or some other JSON value
MissingFile == [kind |-> "missing", forms |-> <<>>]
EmptyObject == [kind |-> "object", forms |-> <<>>]   \* {}
ArrayFile(forms) == [kind |-> "array", forms |-> forms]

PENDING == "pending"
SUBMITTED_TO_HOD == "Submitted to HOD"
SUBMITTED_TO_IT == "Submitted to IT"
IT_COMPLETED == "IT Completed"
REJECTED == "rejected"

\* the four save routes: request key |-> storage key
storageKeyOf ==
    [disposalForm |-> "disposalFormData",
     efileForm |-> "efileFormData",
     form365Transfer |-> "form365TransferData",
     form365Disposal |-> "form365Data"]

ReqKeys == DOMAIN storageKeyOf
StorageKeys == {storageKeyOf[k] : k \in ReqKeys}

emptyResponses == [k \in StorageKeys |-> undefined]   \* formResponses: {}

noArgs == [allForms |-> <<>>, employeeId |-> "", allowedStatuses |-> null, called |-> FALSE]

noRequest == [op |-> "none"]

noResponse ==
    [code |-> 0, message |-> "", formId |-> "", status |-> "",
     sessionFormId |-> "", sessionStatus |-> ""]

----------------------------------------------------------------------------
(* fileUtils *)

IsArray(data) == data.kind = "array"

\* a missing file is answered with {}
loadJSON(file) == IF file.kind = "missing" THEN EmptyObject ELSE file

\* `const data = loadJSON(..); forms = Array.isArray(data) ? data : []`
loadForms(file) == IF IsArray(loadJSON(file)) THEN loadJSON(file).forms ELSE <<>>

----------------------------------------------------------------------------
(* getLatestFormForEmployee *)

\* the result `null`
nullForm ==
    [formId |-> "", employeeId |-> "", status |-> "", submissionDate |-> NoDate,
     submittedBy |-> "", lastUpdated |-> NoDate, finalSubmittedAt |-> NoDate,
     assignedForms |-> <<>>, formResponses |-> emptyResponses, hodApproval |-> noApproval]

\* a.submissionDate || a.lastUpdated
DateKey(f) ==
    IF f.submissionDate # NoDate THEN f.submissionDate ELSE f.lastUpdated

\* the comparator with its operands swapped: oldest first
compareFnAscending(a, b) == DateKey(a) - DateKey(b)

\* the comparator of the sort: negative puts a first
compareFn(a, b) == DateKey(b) - DateKey(a)

RECURSIVE insertSorted(_, _)
insertSorted(x, s) ==
    IF s = <<>> THEN <<x>>
    ELSE IF compareFn(Head(s), x) > 0 THEN <<x>> \o s
    ELSE <<Head(s)>> \o insertSorted(x, Tail(s))

\* Array.prototype.sort: stable
RECURSIVE sortForms(_)
sortForms(s) ==
    IF s = <<>> THEN <<>>
    ELSE insertSorted(s[Len(s)], sortForms(SubSeq(s, 1, Len(s) - 1)))

matchesEmployee(f, employeeId) == f.employeeId = employeeId

lowerCase(status) == IF status = "Pending" THEN "pending" ELSE status

\* the allow-list compared without regard to case
statusAllowedIgnoringCase(f, allowedStatuses) ==
    lowerCase(f.status) \in {lowerCase(x) : x \in allowedStatuses}

statusAllowed(f, allowedStatuses) == f.status \in allowedStatuses

getLatestFormForEmployee(allForms, employeeId, allowedStatuses) ==
    LET employeeForms == SelectSeq(allForms, LAMBDA f : matchesEmployee(f, employeeId))
        filtered == IF allowedStatuses # null
                    THEN SelectSeq(employeeForms, LAMBDA f : statusAllowed(f, allowedStatuses))
                    ELSE employeeForms
        sorted == sortForms(filtered)
    IN  IF sorted = <<>> THEN nullForm ELSE sorted[1]

\* allForms.findIndex(f => f.formId === formId); 0 stands for -1
findIndex(allForms, formId) ==
    IF \E i \in 1..Len(allForms) : allForms[i].formId = formId
    THEN CHOOSE i \in 1..Len(allForms) :
            /\ allForms[i].formId = formId
            /\ \A j \in 1..(i - 1) : allForms[j].formId # formId
    ELSE 0

----------------------------------------------------------------------------
(* POST /submit-no-dues *)

\* the allow-list with one active status forgotten
activeStatusesWithoutHod == {"Pending", "pending", "Submitted to IT", "approved"}

activeStatuses == {"Pending", "pending", "Submitted to HOD", "Submitted to IT", "approved"}

\* 'F' + Date.now()
newFormId(t) == "F" \o ToString(t)

conflictMessage(existingForm) ==
    "You already have a " \o existingForm.status \o " application (" \o existingForm.formId \o ")"

\* the new case with its status capitalised
newFormCapitalised(employeeId, t) ==
    [formId |-> newFormId(t),
     employeeId |-> employeeId,
     status |-> "Pending",
     submissionDate |-> t,
     submittedBy |-> employeeId,
     lastUpdated |-> t,
     finalSubmittedAt |-> NoDate,
     assignedForms |-> <<>>,
     formResponses |-> emptyResponses,
     hodApproval |-> noApproval]

newForm(employeeId, t) ==
    [formId |-> newFormId(t),
     employeeId |-> employeeId,
     status |-> PENDING,
     submissionDate |-> t,
     submittedBy |-> employeeId,
     lastUpdated |-> t,
     finalSubmittedAt |-> NoDate,
     assignedForms |-> <<>>,
     formResponses |-> emptyResponses,
     hodApproval |-> noApproval]

\* a response; the session is left as it was
Reply(code, message, formId, status) ==
    [code |-> code, message |-> message, formId |-> formId, status |-> status,
     sessionFormId |-> "", sessionStatus |-> ""]

\* req.session.user.formId = formId (and applicationStatus, when given)
WithSession(reply, formId, applicationStatus) ==
    [reply EXCEPT !.sessionFormId = formId, !.sessionStatus = applicationStatus]

Serve(request) ==
    /\ served < MaxRequests
    /\ served' = served + 1
    /\ req' = request
    /\ UNCHANGED <<now, fnArgs, fnResult>>

\* the handler with the session written before the save is attempted
SubmitNoDuesSessionFirst(r) ==
    LET employeeId == IF r.bodyEmployeeId # "" THEN r.bodyEmployeeId ELSE r.user
        pendingForms == loadForms(pendingFile)
        existingForm == getLatestFormForEmployee(pendingForms, employeeId, activeStatuses)
        formId == newFormId(now)
        Fail(code, message) ==
            /\ resp' = Reply(code, message, "", "")
            /\ UNCHANGED pendingFile
    IN  /\ Serve(r)
        /\ IF ~r.hasBody THEN Fail(400, "Request body is missing")
           ELSE IF r.user = NO_SESSION THEN Fail(401, "Session not found")
           ELSE IF ~r.hasFile THEN Fail(400, "Order letter file is required")
           ELSE IF ~r.fieldsOk THEN Fail(400, "Missing required fields")
           ELSE IF existingForm # nullForm THEN Fail(400, conflictMessage(existingForm))
           ELSE /\ Len(pendingForms) < MaxForms
                /\ IF ~r.saveOk
                   THEN /\ resp' = WithSession(Reply(500, "Failed to save form", "", ""),
                                               formId, PENDING)
                        /\ UNCHANGED pendingFile
                   ELSE /\ pendingFile' = ArrayFile(Append(pendingForms, newForm(employeeId, now)))
                        /\ resp' = WithSession(
                                       Reply(200,
                                             "Application submitted successfully", formId, PENDING),
                                       formId, PENDING)

\* the handler, given what loadJSON(PENDING_FORMS) answers
SubmitNoDuesLoaded(r, loadedData) ==
    LET user == r.user
        hasBody == r.hasBody
        hasFile == r.hasFile
        fieldsOk == r.fieldsOk
        saveOk == r.saveOk
        \* bodyData.employeeId || sessionUser.id
        employeeId == IF r.bodyEmployeeId # "" THEN r.bodyEmployeeId ELSE user
        \* `if (Array.isArray(loadedData)) pendingForms = loadedData`, else []
        pendingForms == IF IsArray(loadedData) THEN loadedData.forms ELSE <<>>
        existingForm == getLatestFormForEmployee(pendingForms, employeeId, activeStatuses)
        formId == newFormId(now)
        Fail(code, message) ==
            /\ resp' = Reply(code, message, "", "")
            /\ UNCHANGED pendingFile
    IN  /\ Serve(r)
        /\ IF ~hasBody THEN Fail(400, "Request body is missing")
           ELSE IF user = NO_SESSION THEN Fail(401, "Session not found")
           ELSE IF ~hasFile THEN Fail(400, "Order letter file is required")
           ELSE IF ~fieldsOk THEN Fail(400, "Missing required fields")
           ELSE IF existingForm # nullForm THEN Fail(400, conflictMessage(existingForm))
           ELSE /\ Len(pendingForms) < MaxForms
                /\ IF ~saveOk THEN Fail(500, "Failed to save form")
                   ELSE /\ pendingFile' = ArrayFile(Append(pendingForms, newForm(employeeId, now)))
                        /\ resp' = WithSession(
                                       Reply(200,
                                             "Application submitted successfully", formId, PENDING),
                                       formId, PENDING)

SubmitNoDues(r) == SubmitNoDuesLoaded(r, loadJSON(pendingFile))

----------------------------------------------------------------------------
(* Request payloads *)

\* a value of req.body[reqKey]: absent, a string, or an object
Absent == [type |-> "undefined", value |-> ""]
Obj(v) == [type |-> "object", value |-> v]
Str(text) == [type |-> "string", value |-> text]

JSON_O1 == "{\"v\":1}"     \* the text of object o1
JSON_5 == "5"              \* parses, but not to an object
JSON_BAD == "{bad"         \* does not parse

\* a parser that repairs malformed text instead of throwing
JSONparseLenient(text) ==
    IF text = JSON_5 THEN [thrown |-> FALSE, type |-> "number", value |-> "5"]
    ELSE [thrown |-> FALSE, type |-> "object", value |-> "o1"]

\* JSON.parse: the parsed value, or thrown
JSONparse(text) ==
    IF text = JSON_O1 THEN [thrown |-> FALSE, type |-> "object", value |-> "o1"]
    ELSE IF text = JSON_5 THEN [thrown |-> FALSE, type |-> "number", value |-> "5"]
    ELSE [thrown |-> TRUE, type |-> "undefined", value |-> ""]

\* req.body, when it is the payload itself
REQ_BODY == Obj("o1")

SaveInputs == {Absent, Obj("o1"), Str(JSON_O1), Str(JSON_5), Str(JSON_BAD)}
FinalInputs == {Absent, Str(JSON_O1), Obj("o1")}

\* the check without its typeof half: any truthy value passes
isValidObjectTruthy(x) == x.type # "undefined"

\* `!x || typeof x !== 'object'` is false
isValidObject(x) == x.type = "object"

----------------------------------------------------------------------------
(* savePartialForm(reqKey, storageKey) *)

setResponse(form, storageKey, parsedData, t) ==
    [form EXCEPT !.formResponses = [@ EXCEPT ![storageKey] = parsedData],
                 !.lastUpdated = t]

SavePartialForm(r) ==
    LET user == r.user
        input == r.input
        saveOk == r.saveOk
        storageKey == storageKeyOf[r.reqKey]
        employeeId == user
        allForms == loadForms(pendingFile)
        latestForm == getLatestFormForEmployee(allForms, employeeId, null)
        formIndex == IF latestForm # nullForm THEN findIndex(allForms, latestForm.formId) ELSE 0
        \* req.body[reqKey] || req.body
        inputData == IF input.type = "undefined" THEN REQ_BODY ELSE input
        parsed == IF inputData.type = "string" THEN JSONparse(inputData.value)
                  ELSE [thrown |-> FALSE, type |-> inputData.type, value |-> inputData.value]
        Fail(code, message) ==
            /\ resp' = Reply(code, message, "", "")
            /\ UNCHANGED pendingFile
        \* the session's formId is set before the payload is read
        FailAfterSession(code, message) ==
            /\ resp' = WithSession(Reply(code, message, "", ""),
                                   latestForm.formId, "")
            /\ UNCHANGED pendingFile
    IN  /\ Serve(r)
        /\ IF user = NO_SESSION
           THEN Fail(401, "Session expired")
           ELSE IF formIndex = 0
           THEN Fail(404, "No pending form found for this employee. Please submit initial application first.")
           ELSE IF parsed.thrown
           THEN FailAfterSession(400, "Invalid JSON format for " \o storageKey)
           ELSE IF parsed.type # "object"
           THEN FailAfterSession(400, "Invalid data format for " \o storageKey)
           ELSE IF ~saveOk
           THEN FailAfterSession(500, "Failed to save " \o storageKey)
           ELSE /\ pendingFile' = ArrayFile([allForms EXCEPT ![formIndex] =
                                     setResponse(@, storageKey, parsed.value, now)])
                /\ resp' = WithSession(
                               Reply(200, storageKey \o " saved successfully", "", ""),
                               latestForm.formId, "")

----------------------------------------------------------------------------
(* POST /final-submit *)

MSG_DISPOSAL == "Valid disposal form data is required"
MSG_EFILE == "Valid e-file form data is required"
MSG_FORM365 == "Valid Form 365 (Transfer or Disposal) data is required"

mergeResponses(formResponses, disposalForm, efileForm, form365Transfer, form365Disposal) ==
    [k \in StorageKeys |->
        IF k = "disposalFormData" THEN disposalForm.value
        ELSE IF k = "efileFormData" THEN efileForm.value
        ELSE IF k = "form365TransferData" /\ isValidObject(form365Transfer) THEN form365Transfer.value
        ELSE IF k = "form365Data" /\ isValidObject(form365Disposal) THEN form365Disposal.value
        ELSE formResponses[k]]

\* final submit that also resets the assigned forms
finalSubmitFormResetting(form, disposalForm, efileForm, form365Transfer, form365Disposal, t) ==
    [form EXCEPT !.formResponses =
                     mergeResponses(@, disposalForm, efileForm, form365Transfer, form365Disposal),
                 !.status = SUBMITTED_TO_HOD,
                 !.finalSubmittedAt = t,
                 !.lastUpdated = t,
                 !.assignedForms = <<>>]

finalSubmitForm(form, disposalForm, efileForm, form365Transfer, form365Disposal, t) ==
    [form EXCEPT !.formResponses =
                     mergeResponses(@, disposalForm, efileForm, form365Transfer, form365Disposal),
                 !.status = SUBMITTED_TO_HOD,
                 !.finalSubmittedAt = t,
                 !.lastUpdated = t]

FinalSubmit(r) ==
    LET user == r.user
        disposalForm == r.disposalForm
        efileForm == r.efileForm
        form365Transfer == r.form365Transfer
        form365Disposal == r.form365Disposal
        saveOk == r.saveOk
        employeeId == user
        pendingForms == loadForms(pendingFile)
        latestForm == getLatestFormForEmployee(pendingForms, employeeId, null)
        formIndex == IF latestForm # nullForm THEN findIndex(pendingForms, latestForm.formId) ELSE 0
        form == pendingForms[formIndex]
        Fail(code, message) ==
            /\ resp' = Reply(code, message, "", "")
            /\ UNCHANGED pendingFile
    IN  /\ Serve(r)
        /\ IF user = NO_SESSION
           THEN Fail(401, "Session expired")
           ELSE IF formIndex = 0
           THEN Fail(404, "No pending form found for this employee")
           ELSE IF ~isValidObject(disposalForm)
           THEN Fail(400, MSG_DISPOSAL)
           ELSE IF ~isValidObject(efileForm)
           THEN Fail(400, MSG_EFILE)
           ELSE IF ~isValidObject(form365Transfer) /\ ~isValidObject(form365Disposal)
           THEN Fail(400, MSG_FORM365)
           ELSE IF ~saveOk
           \* the session's formId is set before the save
           THEN /\ resp' = WithSession(
                               Reply(500, "Failed to save form submission", "", ""),
                               form.formId, "")
                /\ UNCHANGED pendingFile
           ELSE /\ pendingFile' = ArrayFile([pendingForms EXCEPT ![formIndex] =
                                     finalSubmitForm(@, disposalForm, efileForm,
                                                     form365Transfer, form365Disposal, now)])
                /\ resp' = WithSession(
                               Reply(200, "Forms submitted to HOD for review",
                                     form.formId, SUBMITTED_TO_HOD),
                               form.formId, "")

----------------------------------------------------------------------------
(* The HOD / IT workflows (external collaborators) write the same store *)

ASSIGNED == <<"Disposal Form", "E-File">>

\* the statuses of a case that has not reached a terminal outcome
ActiveStates == {"pending", "Pending", "approved", "Submitted to HOD", "Submitted to IT"}
TerminalStates == {IT_COMPLETED, REJECTED}

ExternalWrite(op, i, form) ==
    /\ pendingFile' = ArrayFile([loadForms(pendingFile) EXCEPT ![i] = form])
    /\ resp' = Reply(200, "", form.formId, form.status)
    /\ Serve([op |-> op, index |-> i])

\* forms are assigned to a pending case
AssignForms(i) ==
    LET form == loadForms(pendingFile)[i]
    IN  /\ form.status = PENDING
        /\ form.assignedForms = <<>>
        /\ ExternalWrite("assign-forms", i, [form EXCEPT !.assignedForms = ASSIGNED])

\* Submitted to HOD -> Submitted to IT
HodApprove(i) ==
    LET form == loadForms(pendingFile)[i]
    IN  /\ form.status = SUBMITTED_TO_HOD
        /\ ExternalWrite("hod-approve", i,
               [form EXCEPT !.status = SUBMITTED_TO_IT,
                            !.hodApproval = <<[approvedBy |-> "HOD", approvedAt |-> now]>>])

\* Submitted to IT -> IT Completed
ItComplete(i) ==
    LET form == loadForms(pendingFile)[i]
    IN  /\ form.status = SUBMITTED_TO_IT
        /\ ExternalWrite("it-complete", i, [form EXCEPT !.status = IT_COMPLETED])

\* any active state -> rejected
Reject(i) ==
    LET form == loadForms(pendingFile)[i]
    IN  /\ form.status \in ActiveStates
        /\ ExternalWrite("reject", i, [form EXCEPT !.status = REJECTED])

----------------------------------------------------------------------------

Tick ==
    /\ now < MaxTime
    /\ now' = now + 1
    /\ UNCHANGED <<pendingFile, served, req, resp, fnArgs, fnResult>>

Init ==
    /\ pendingFile = MissingFile
    /\ now = 1
    /\ served = 0
    /\ req = noRequest
    /\ resp = noResponse
    /\ fnArgs = noArgs
    /\ fnResult = nullForm

(* Requests.  Two requests that differ only in an input the handler never  *)
(* reads (it has answered before reaching it) are the same request; such   *)
(* an input is left absent.                                                *)

SubmitRequests ==
    {r \in [op : {"submit"}, user : Users, hasBody : BOOLEAN, hasFile : BOOLEAN, fieldsOk : BOOLEAN,
            bodyEmployeeId : Employees \cup {""}, saveOk : BOOLEAN] :
        /\ ~r.hasBody => r.user = NO_SESSION
        /\ (~r.hasBody \/ r.user = NO_SESSION) => ~r.hasFile
        /\ ~r.hasFile => ~r.fieldsOk
        /\ ~r.fieldsOk => (r.bodyEmployeeId = "" /\ ~r.saveOk)}

SaveRequests ==
    {r \in [op : {"save"}, reqKey : ReqKeys, user : Users, input : SaveInputs, saveOk : BOOLEAN] :
        /\ r.user = NO_SESSION => (r.reqKey = "disposalForm" /\ r.input = Absent)
        /\ (r.user = NO_SESSION \/ r.input \in {Str(JSON_5), Str(JSON_BAD)}) => ~r.saveOk}

FinalRequests ==
    {r \in [op : {"final-submit"}, user : Users, disposalForm : FinalInputs, efileForm : FinalInputs,
            form365Transfer : FinalInputs, form365Disposal : FinalInputs, saveOk : BOOLEAN] :
        /\ r.user = NO_SESSION => r.disposalForm = Absent
        /\ ~isValidObject(r.disposalForm) => r.efileForm = Absent
        /\ ~isValidObject(r.efileForm) =>
              (r.form365Transfer = Absent /\ r.form365Disposal = Absent)
        /\ (~isValidObject(r.form365Transfer) /\ ~isValidObject(r.form365Disposal)) => ~r.saveOk}

Submit == \E r \in SubmitRequests : SubmitNoDues(r)

Save == \E r \in SaveRequests : SavePartialForm(r)

Final == \E r \in FinalRequests : FinalSubmit(r)

External ==
    \E i \in 1..Len(loadForms(pendingFile)) :
       AssignForms(i) \/ HodApprove(i) \/ ItComplete(i) \/ Reject(i)

Next ==
    \/ Tick
    \/ Submit
    \/ Save
    \/ Final
    \/ External

Spec == Init /\ [][Next]_vars

----------------------------------------------------------------------------
(* getLatestFormForEmployee as a function: every collection of up to       *)
(* MaxLatestLen cases, every employee, with and without an allow-list      *)

LatestStatuses == {"pending", "Pending"}
LatestAllowLists == {null, {"pending"}}
\* <<submissionDate, lastUpdated>>
LatestDates == {<<1, 1>>, <<2, 2>>, <<NoDate, 3>>}

caseAt(i, employeeId, status, dates) ==
    [nullForm EXCEPT !.formId = newFormId(i), !.employeeId = employeeId,
                     !.submittedBy = employeeId, !.status = status,
                     !.submissionDate = dates[1], !.lastUpdated = dates[2]]

\* the collections of n cases
LatestCollections(n) ==
    {[i \in 1..n |-> caseAt(i, c[i][1], c[i][2], c[i][3])] :
        c \in [1..n -> Employees \X LatestStatuses \X LatestDates]}

InitLatest ==
    /\ pendingFile = MissingFile
    /\ now = 1
    /\ served = 0
    /\ req = noRequest
    /\ resp = noResponse
    /\ fnResult = nullForm
    /\ \E n \in 0..MaxLatestLen :
          fnArgs \in [allForms : LatestCollections(n), employeeId : Employees,
                      allowedStatuses : LatestAllowLists, called : {FALSE}]

CallGetLatest ==
    /\ ~fnArgs.called
    /\ fnResult' = getLatestFormForEmployee(fnArgs.allForms, fnArgs.employeeId,
                                            fnArgs.allowedStatuses)
    /\ fnArgs' = [fnArgs EXCEPT !.called = TRUE]
    /\ UNCHANGED <<pendingFile, now, served, req, resp>>

NextLatest == CallGetLatest

SpecLatest == InitLatest /\ [][NextLatest]_vars

----------------------------------------------------------------------------
(* buildTimelineData.  A case is given by the fields the function reads;   *)
(* an event by its step, title, date and status (the details text is left  *)
(* out).  hodApproval, itProcessing and certificates are <<>> when absent   *)
(* and a one-element sequence holding the value when present.              *)

noProcessing == <<>>              \* itProcessing: null
noCertificates == <<>>            \* certificates: undefined

timelineEvent(step, title, date, status) ==
    [step |-> step, title |-> title, date |-> date, status |-> status]

submittedEvents(formData) ==
    IF formData.submissionDate # NoDate
    THEN <<timelineEvent("submitted", "Application Submitted", formData.submissionDate, "completed")>>
    ELSE <<>>

\* the review step emitted whatever the status
itReviewedEventsAlways(formData) ==
    <<timelineEvent("it_reviewed", "IT Initial Review", formData.lastUpdated,
                    IF formData.status = "rejected" THEN "rejected" ELSE "completed")>>

itReviewedEvents(formData) ==
    IF formData.status # "pending"
    THEN <<timelineEvent("it_reviewed", "IT Initial Review", formData.lastUpdated,
                         IF formData.status = "rejected" THEN "rejected" ELSE "completed")>>
    ELSE <<>>

formsAssignedEvents(formData) ==
    IF Len(formData.assignedForms) > 0
    THEN <<timelineEvent("forms_assigned", "Forms Assigned", formData.lastUpdated, "completed")>>
    ELSE <<>>

\* Object.keys(formResponses)
responseKeys(formResponses) == {k \in StorageKeys : formResponses[k] # undefined}

formsCompletedEvents(formData) ==
    IF responseKeys(formData.formResponses) # {}
    THEN <<timelineEvent("forms_completed", "Forms Completed",
                         IF formData.finalSubmittedAt # NoDate
                         THEN formData.finalSubmittedAt ELSE formData.lastUpdated,
                         "completed")>>
    ELSE <<>>

hodApprovedEvents(formData) ==
    IF formData.hodApproval # noApproval
    THEN <<timelineEvent("hod_approved", "HOD Approval",
                         formData.hodApproval[1].approvedAt, "completed")>>
    ELSE <<>>

itProcessingEvents(formData) ==
    IF formData.itProcessing # noProcessing
    THEN <<timelineEvent("it_processing", "IT Final Processing",
                         formData.itProcessing[1].processedAt,
                         IF formData.itProcessing[1].action = "completed"
                         THEN "completed" ELSE "rejected")>>
    ELSE <<>>

\* formData.itProcessing?.processedAt || new Date().toISOString()
certificatesEvents(formData, t) ==
    IF formData.status = IT_COMPLETED /\ formData.certificates # noCertificates
    THEN <<timelineEvent("certificates_generated", "Certificates Generated",
                         IF formData.itProcessing # noProcessing
                            /\ formData.itProcessing[1].processedAt # NoDate
                         THEN formData.itProcessing[1].processedAt ELSE t,
                         "completed")>>
    ELSE <<>>

\* the comparator with its operands swapped: newest first
timelineCompareFnDescending(a, b) == b.date - a.date

\* (a, b) => new Date(a.date) - new Date(b.date)
timelineCompareFn(a, b) == a.date - b.date

RECURSIVE insertEvent(_, _)
insertEvent(x, s) ==
    IF s = <<>> THEN <<x>>
    ELSE IF timelineCompareFn(Head(s), x) > 0 THEN <<x>> \o s
    ELSE <<Head(s)>> \o insertEvent(x, Tail(s))

\* timeline.sort(..): stable
RECURSIVE sortTimeline(_)
sortTimeline(s) ==
    IF s = <<>> THEN <<>>
    ELSE insertEvent(s[Len(s)], sortTimeline(SubSeq(s, 1, Len(s) - 1)))

\* the timeline of a case, built at clock reading t
buildTimelineData(formData, t) ==
    sortTimeline(submittedEvents(formData)
                 \o itReviewedEvents(formData)
                 \o formsAssignedEvents(formData)
                 \o formsCompletedEvents(formData)
                 \o hodApprovedEvents(formData)
                 \o itProcessingEvents(formData)
                 \o certificatesEvents(formData, t))

\* the cases the timeline is built for
TimelineStatuses == {PENDING, SUBMITTED_TO_HOD, REJECTED, "Rejected", IT_COMPLETED}
TimelineApprovals == {noApproval} \cup {<<[approvedBy |-> "HOD", approvedAt |-> d]>> : d \in {1, 3}}
TimelineProcessings ==
    {noProcessing} \cup {<<[action |-> a, processedAt |-> 2]>> : a \in {"completed", "rejected"}}
TimelineCertificates == {noCertificates, <<(<<"certificate">>)>>}
TimelineResponses == {emptyResponses, [emptyResponses EXCEPT !["disposalFormData"] = "o1"]}

TimelineCases ==
    [status : TimelineStatuses,
     submissionDate : {NoDate, 2},
     lastUpdated : {1, 3},
     finalSubmittedAt : {NoDate, 2},
     assignedForms : {<<>>, ASSIGNED},
     formResponses : TimelineResponses,
     hodApproval : TimelineApprovals,
     itProcessing : TimelineProcessings,
     certificates : TimelineCertificates]

MaxCalls == 2      \* calls of buildTimelineData on one case

InitTimeline ==
    /\ pendingFile = MissingFile
    /\ now = 1
    /\ served = 0
    /\ req = noRequest
    /\ resp = noResponse
    /\ fnArgs \in [formData : TimelineCases]
    /\ fnResult = <<>>

\* one call; fnResult collects the timelines returned so far
CallBuildTimeline ==
    /\ Len(fnResult) < MaxCalls
    /\ fnResult' = Append(fnResult, buildTimelineData(fnArgs.formData, now))
    /\ UNCHANGED <<pendingFile, now, served, req, resp, fnArgs>>

NextTimeline == CallBuildTimeline \/ Tick

SpecTimeline == InitTimeline /\ [][NextTimeline]_vars

----------------------------------------------------------------------------
(* getFormsCompletionStatus.  An assigned form is given by its title and   *)
(* path; a missing assignedForms and an empty one both give the empty list *)
(* and are the empty sequence here.                                        *)

\* the table with the Form 365 disposal key named after its request key
formMappingsMisnamed ==
    [t \in {"Disposal Form", "E-File", "Form 365 - Transfer", "Form 365 - Disposal"} |->
        IF t = "Disposal Form" THEN "disposalFormData"
        ELSE IF t = "E-File" THEN "efileFormData"
        ELSE IF t = "Form 365 - Transfer" THEN "form365TransferData"
        ELSE "form365DisposalData"]

formMappings ==
    [t \in {"Disposal Form", "E-File", "Form 365 - Transfer", "Form 365 - Disposal"} |->
        IF t = "Disposal Form" THEN "disposalFormData"
        ELSE IF t = "E-File" THEN "efileFormData"
        ELSE IF t = "Form 365 - Transfer" THEN "form365TransferData"
        ELSE "form365Data"]

\* formMappings[form.title]
formKeyOf(title) ==
    IF title \in DOMAIN formMappings THEN formMappings[title] ELSE undefined

\* formKey && formData.formResponses && formData.formResponses[formKey]
isCompleted(formData, formKey) ==
    /\ formKey # undefined
    /\ formKey \in DOMAIN formData.formResponses
    /\ formData.formResponses[formKey] # undefined

formStatusEntry(formData, form) ==
    [title |-> form.title,
     path |-> form.path,
     status |-> IF isCompleted(formData, formKeyOf(form.title)) THEN "completed" ELSE "pending",
     lastUpdated |-> formData.lastUpdated,
     dataKey |-> formKeyOf(form.title),
     hasData |-> isCompleted(formData, formKeyOf(form.title))]

getFormsCompletionStatus(formData) ==
    IF formData.assignedForms = <<>> THEN <<>>
    ELSE [i \in 1..Len(formData.assignedForms) |->
             formStatusEntry(formData, formData.assignedForms[i])]

MaxAssigned == 2   \* assigned forms of a case

FormTitles == DOMAIN formMappings \cup {"Leave Encashment"}

assignedForm(title) == [title |-> title, path |-> "/forms/" \o title]

AssignedLists ==
    UNION {{[i \in 1..n |-> assignedForm(c[i])] : c \in [1..n -> FormTitles]} : n \in 0..MaxAssigned}

FormsStatusCases ==
    [assignedForms : AssignedLists,
     formResponses : [StorageKeys -> {undefined, "o1"}],
     lastUpdated : {1}]

InitFormsStatus ==
    /\ pendingFile = MissingFile
    /\ now = 1
    /\ served = 0
    /\ req = noRequest
    /\ resp = noResponse
    /\ fnArgs \in [formData : FormsStatusCases, called : {FALSE}]
    /\ fnResult = <<>>

CallGetFormsCompletionStatus ==
    /\ ~fnArgs.called
    /\ fnResult' = getFormsCompletionStatus(fnArgs.formData)
    /\ fnArgs' = [fnArgs EXCEPT !.called = TRUE]
    /\ UNCHANGED <<pendingFile, now, served, req, resp>>

NextFormsStatus == CallGetFormsCompletionStatus

SpecFormsStatus == InitFormsStatus /\ [][NextFormsStatus]_vars

----------------------------------------------------------------------------
(* generateFormCertificates.  formResponses maps each form type to the     *)
(* kind of value stored under it; one unit of work per valid form type     *)
(* settles as a certificate or as a failure, in any order, and the call    *)
(* returns once all have settled.  Whether createFormCertificatePDF        *)
(* succeeds (timeout, size limit, stream and verification errors) is the   *)
(* environment's choice.                                                   *)

\* Object.keys(formResponses), in insertion order
CertFormTypes == <<"disposalFormData", "efileFormData", "form365TransferData", "form365Data">>

CertTypeSet == {CertFormTypes[i] : i \in 1..Len(CertFormTypes)}

\* the value under a key: no such key, null, a string, an object
EntryKinds == {"absent", "null", "string", "object"}

\* formResponses[formType] && typeof formResponses[formType] === 'object'
isValidEntry(kind) == kind = "object"

validFormTypes(entries) ==
    SelectSeq(CertFormTypes, LAMBDA t : entries[t] # "absent" /\ isValidEntry(entries[t]))

\* PDFValidator.validateFormData: throws unless given an object
validateFormData(kind) == kind = "object"

noUnits == [t \in CertTypeSet |-> "none"]

idlePipeline ==
    [phase |-> "idle", units |-> noUnits, certificates |-> <<>>, failedCount |-> 0,
     error |-> ""]

certificate(formType) == [formType |-> formType, status |-> "success"]

Thrown(message) ==
    [fnResult EXCEPT !.phase = "failed", !.error = message]

\* the call up to the fan-out
StartGeneration ==
    /\ fnResult.phase = "idle"
    /\ fnResult' =
          IF fnArgs.formId = "" THEN Thrown("Invalid form ID provided")
          ELSE IF ~fnArgs.isObject THEN Thrown("Invalid form responses provided")
          ELSE IF ~fnArgs.dirsOk THEN Thrown("ensureDir failed")
          ELSE IF validFormTypes(fnArgs.entries) = <<>>
          THEN Thrown("No valid form responses found")
          ELSE [fnResult EXCEPT
                  !.phase = "running",
                  !.units = [t \in CertTypeSet |->
                               IF \E i \in 1..Len(validFormTypes(fnArgs.entries)) :
                                     validFormTypes(fnArgs.entries)[i] = t
                               THEN "running" ELSE "none"]]
    /\ UNCHANGED <<pendingFile, now, served, req, resp, fnArgs>>

\* one unit settles: its certificate, or the failure its catch block returns
UnitSettles(t, pdfOk) ==
    /\ fnResult.phase = "running"
    /\ fnResult.units[t] = "running"
    /\ fnResult' = [fnResult EXCEPT !.units[t] =
                       IF validateFormData(fnArgs.entries[t]) /\ pdfOk
                       THEN "success" ELSE "failed"]
    /\ UNCHANGED <<pendingFile, now, served, req, resp, fnArgs>>

\* the filter without its test of value.status: every fulfilled result
fulfilledTypes(units) ==
    SelectSeq(CertFormTypes, LAMBDA t : units[t] \in {"success", "failed"})

\* result.status === 'fulfilled' && result.value.status === 'success'
successfulTypes(units) ==
    SelectSeq(CertFormTypes, LAMBDA t : units[t] = "success")

\* result.status === 'fulfilled' && result.value.status === 'failed'
failedTypes(units) ==
    SelectSeq(CertFormTypes, LAMBDA t : units[t] = "failed")

\* Promise.race in place of Promise.allSettled: the results are collected as
\* soon as one unit has settled
CollectResultsEarly ==
    /\ fnResult.phase = "running"
    /\ \E t \in CertTypeSet : fnResult.units[t] \in {"success", "failed"}
    /\ LET succeeded == successfulTypes(fnResult.units)
           failed == failedTypes(fnResult.units)
       IN  fnResult' =
              [fnResult EXCEPT
                 !.certificates = [i \in 1..Len(succeeded) |-> certificate(succeeded[i])],
                 !.failedCount = Len(failed),
                 !.phase = IF succeeded = <<>> THEN "failed" ELSE "returned",
                 !.error = IF succeeded = <<>>
                           THEN "No certificates were generated successfully" ELSE ""]
    /\ UNCHANGED <<pendingFile, now, served, req, resp, fnArgs>>

\* after Promise.allSettled
CollectResults ==
    /\ fnResult.phase = "running"
    /\ \A t \in CertTypeSet : fnResult.units[t] # "running"
    /\ LET succeeded == successfulTypes(fnResult.units)
           failed == failedTypes(fnResult.units)
       IN  fnResult' =
              [fnResult EXCEPT
                 !.certificates = [i \in 1..Len(succeeded) |-> certificate(succeeded[i])],
                 !.failedCount = Len(failed),
                 !.phase = IF succeeded = <<>> THEN "failed" ELSE "returned",
                 !.error = IF succeeded = <<>>
                           THEN "No certificates were generated successfully" ELSE ""]
    /\ UNCHANGED <<pendingFile, now, served, req, resp, fnArgs>>

CertificateInputs ==
    {a \in [formId : {"F1", ""}, isObject : BOOLEAN, dirsOk : BOOLEAN,
            entries : [CertTypeSet -> EntryKinds]] :
        /\ a.formId = "" => (~a.isObject /\ ~a.dirsOk)
        /\ ~a.isObject => (~a.dirsOk /\ \A t \in CertTypeSet : a.entries[t] = "absent")}

InitCertificates ==
    /\ pendingFile = MissingFile
    /\ now = 1
    /\ served = 0
    /\ req = noRequest
    /\ resp = noResponse
    /\ fnArgs \in CertificateInputs
    /\ fnResult = idlePipeline

NextCertificates ==
    \/ StartGeneration
    \/ \E t \in CertTypeSet, pdfOk \in BOOLEAN : UnitSettles(t, pdfOk)
    \/ CollectResults

SpecCertificates == InitCertificates /\ [][NextCertificates]_vars

----------------------------------------------------------------------------
(* createFormCertificatePDF.  Several generations, of one call or of       *)
(* concurrent and retried calls, share the certificate directory.  One     *)
(* generation runs synchronously up to the first await of                  *)
(* generateCertificateContent (Start); the document's 'data' events, the   *)
(* end of the content, the timer and the stream's 'finish' and 'error'     *)
(* events then arrive in any order the event loop allows.  The timer and   *)
(* the stream events are macrotasks: they run only after the executor has  *)
(* registered its listeners (the content generation awaits no I/O).        *)

MaxGenerations == 2   \* generations sharing the directory

PdfFormIds == {"F1", "F2"}
PdfFormTypes == {"disposalFormData", "efileFormData"}

Generations == 1..MaxGenerations

idCode(formId) == IF formId = "F1" THEN 1 ELSE 2
typeCode(formType) == IF formType = "disposalFormData" THEN 1 ELSE 2

\* md5(`${id}-${type}-${timestamp}`).substring(0, 8): a digest of the other
\* three parts of the name
contentHash(formId, formType, timestamp) ==
    (idCode(formId) * 31 + typeCode(formType) * 17 + timestamp * 7) % 16

\* `${sanitizedFormId}_${sanitizedFormType}_${timestamp}_${contentHash}.pdf`
fileName(formId, formType, timestamp) ==
    <<formId, formType, timestamp, contentHash(formId, formType, timestamp)>>

noPath == <<>>

idleGeneration ==
    [pc |-> "idle", promise |-> "pending", reason |-> "", timer |-> FALSE,
     oversize |-> FALSE, filePath |-> noPath]

\* resolve / reject: only the first call settles the promise
settle(gen, outcome, reason) ==
    IF gen.promise = "pending"
    THEN [gen EXCEPT !.promise = outcome, !.reason = reason]
    ELSE gen

\* the directory: the files present, and for each file the generations that
\* opened a write stream on it
noFiles == [present |-> {}, complete |-> {}, openedBy |-> {}]

openers(dir, path) == {o[2] : o \in {x \in dir.openedBy : x[1] = path}}

\* fs.createWriteStream(filePath): creates the file, or truncates the one there
createWriteStream(dir, path, g) ==
    [present |-> dir.present \cup {path},
     complete |-> dir.complete \ {path},
     openedBy |-> dir.openedBy \cup {<<path, g>>}]

\* fs.unlink(filePath)
unlink(dir, path) ==
    [dir EXCEPT !.present = @ \ {path}, !.complete = @ \ {path}]

\* the stream flushed its last byte
finishFile(dir, path) ==
    IF path \in dir.present THEN [dir EXCEPT !.complete = @ \cup {path}] ELSE dir

PdfStep(g, gen, dir) ==
    /\ fnResult' = [gens |-> [fnResult.gens EXCEPT ![g] = gen], dir |-> dir]
    /\ UNCHANGED <<pendingFile, now, served, req, resp, fnArgs>>

\* lines 321-364: timer, sanitised names, file name, write stream
StartPdf(g) ==
    /\ fnResult.gens[g].pc = "idle"
    /\ LET path == fileName(fnArgs[g].formId, fnArgs[g].formType, now)
       IN  PdfStep(g,
                   [fnResult.gens[g] EXCEPT
                       !.pc = "content", !.timer = TRUE, !.filePath = path],
                   createWriteStream(fnResult.dir, path, g))

\* doc.on('data'): pdfSize passed maxSize
SizeExceeded(g) ==
    /\ fnResult.gens[g].pc \in {"content", "ending"}
    /\ ~fnResult.gens[g].oversize
    /\ PdfStep(g,
               [settle(fnResult.gens[g], "rejected", "size") EXCEPT
                   !.timer = FALSE, !.oversize = TRUE],
               fnResult.dir)

\* generateCertificateContent threw: the outer catch destroys the stream
ContentError(g) ==
    /\ fnResult.gens[g].pc = "content"
    /\ PdfStep(g,
               [settle(fnResult.gens[g], "rejected", "content") EXCEPT
                   !.pc = "closed", !.timer = FALSE],
               fnResult.dir)

\* generateCertificateContent returned: doc.end(), listeners registered
ContentDone(g) ==
    /\ fnResult.gens[g].pc = "content"
    /\ PdfStep(g, [fnResult.gens[g] EXCEPT !.pc = "ending"], fnResult.dir)

\* the setTimeout callback: reject(new Error('PDF generation timeout'))
Timeout(g) ==
    /\ fnResult.gens[g].pc = "ending"
    /\ fnResult.gens[g].timer
    /\ PdfStep(g,
               [settle(fnResult.gens[g], "rejected", "timeout") EXCEPT !.timer = FALSE],
               fnResult.dir)

\* stream.on('finish'): verification of the file on disk.  sizeOnDisk is what
\* fs.stat reports: "empty", "ok" or "large"
StreamFinish(g, sizeOnDisk) ==
    /\ fnResult.gens[g].pc = "ending"
    /\ LET gen == [fnResult.gens[g] EXCEPT !.pc = "closed", !.timer = FALSE]
           path == gen.filePath
           dir == finishFile(fnResult.dir, path)
       IN  IF path \notin dir.present
           THEN PdfStep(g, settle(gen, "rejected", "verification"), dir)
           ELSE IF sizeOnDisk = "empty"
           THEN PdfStep(g, settle(gen, "rejected", "verification"), dir)
           ELSE IF sizeOnDisk = "large"
           THEN PdfStep(g, settle(gen, "rejected", "verification"), unlink(dir, path))
           ELSE PdfStep(g, settle(gen, "resolved", ""), dir)

\* stream.on('error'): the file is removed
StreamError(g) ==
    /\ fnResult.gens[g].pc = "ending"
    /\ PdfStep(g,
               [settle(fnResult.gens[g], "rejected", "stream") EXCEPT
                   !.pc = "closed", !.timer = FALSE],
               unlink(fnResult.dir, fnResult.gens[g].filePath))

PdfInputs == [Generations -> [formId : PdfFormIds, formType : PdfFormTypes]]

InitPdf ==
    /\ pendingFile = MissingFile
    /\ now = 1
    /\ served = 0
    /\ req = noRequest
    /\ resp = noResponse
    /\ fnArgs \in PdfInputs
    /\ fnResult = [gens |-> [g \in Generations |-> idleGeneration], dir |-> noFiles]

NextPdf ==
    \/ \E g \in Generations : StartPdf(g)
    \/ \E g \in Generations : SizeExceeded(g)
    \/ \E g \in Generations : ContentError(g)
    \/ \E g \in Generations : ContentDone(g)
    \/ \E g \in Generations : Timeout(g)
    \/ \E g \in Generations, sizeOnDisk \in {"empty", "ok", "large"} :
          StreamFinish(g, sizeOnDisk)
    \/ \E g \in Generations : StreamError(g)
    \/ Tick

SpecPdf == InitPdf /\ [][NextPdf]_vars

----------------------------------------------------------------------------
(* moveCompletedFormToHistory over ./data/form_history.json.  A field of   *)
(* the case is a JavaScript value: missing (undefined), null, or an array  *)
(* or object, kept as a content number (0: the empty array or object).     *)
(* fnResult holds the history file, the number of calls and what the last  *)
(* call returned.                                                          *)

MaxArchivals == 2   \* calls of moveCompletedFormToHistory in a behaviour

jsUndefined == [tag |-> "undefined", v |-> 0]
jsNull == [tag |-> "null", v |-> 0]
jsValue(v) == [tag |-> "value", v |-> v]
jsEmpty == jsValue(0)     \* [] or {}

\* `x || d` with the operand always replaced: the snapshot holds defaults only
orDefaultAlways(x, d) == d

\* `x || d`: arrays and objects, empty ones too, are truthy
orDefault(x, d) == IF x.tag = "value" THEN x ELSE d

preservedData(formData) ==
    [certificates |-> orDefault(formData.certificates, jsEmpty),
     hodApproval |-> orDefault(formData.hodApproval, jsNull),
     itProcessing |-> orDefault(formData.itProcessing, jsNull),
     assignedForms |-> orDefault(formData.assignedForms, jsEmpty),
     formResponses |-> orDefault(formData.formResponses, jsEmpty)]

\* { ...formData, completedAt, finalStatus, historyType, preservedData }
historyEntry(formData, t) ==
    [formData |-> formData,
     completedAt |-> t,
     finalStatus |-> formData.status,
     historyType |-> "completed_application",
     preservedData |-> preservedData(formData)]

\* loadJSON when the read or the parse may fail: the catch answers {}
loadJSONOrFail(file, readFails) == IF readFails THEN EmptyObject ELSE loadJSON(file)

\* lines 45-54: `history = Array.isArray(data) ? data : []`
loadHistory(file, readFails) ==
    IF IsArray(loadJSONOrFail(file, readFails))
    THEN loadJSONOrFail(file, readFails).forms ELSE <<>>

\* the cases handed to the archival: terminal cases with each preserved field
\* missing, null, empty or filled; only a completed case has certificates
HistoryCases ==
    {[formId |-> "F1", employeeId |-> "E1",
      status |-> IF a[1] = jsValue(11) THEN IT_COMPLETED ELSE REJECTED,
      certificates |-> a[1], hodApproval |-> a[2], itProcessing |-> r[1],
      assignedForms |-> r[2], formResponses |-> r[3]] :
        a \in {<<jsUndefined, jsUndefined>>, <<jsUndefined, jsNull>>,
               <<jsEmpty, jsValue(21)>>, <<jsValue(11), jsValue(21)>>},
        r \in {<<jsUndefined, jsUndefined, jsUndefined>>,
               <<jsNull, jsNull, jsNull>>,
               <<jsNull, jsEmpty, jsEmpty>>,
               <<jsValue(31), jsValue(41), jsValue(51)>>}}

noCase ==
    [formId |-> "", employeeId |-> "", status |-> "",
     certificates |-> jsUndefined, hodApproval |-> jsUndefined,
     itProcessing |-> jsUndefined, assignedForms |-> jsUndefined,
     formResponses |-> jsUndefined]

moveCompletedFormToHistory(formData, readFails, saveFails) ==
    /\ fnResult.calls < MaxArchivals
    /\ fnArgs' = formData
    /\ LET history == loadHistory(fnResult.file, readFails)
           pushed == Append(history, historyEntry(formData, now))
       IN  fnResult' =
              IF saveFails
              THEN [fnResult EXCEPT !.calls = @ + 1, !.returned = FALSE]
              ELSE [file |-> ArrayFile(pushed), calls |-> fnResult.calls + 1,
                    returned |-> TRUE]
    /\ UNCHANGED <<pendingFile, now, served, req, resp>>

InitHistory ==
    /\ pendingFile = MissingFile
    /\ now = 1
    /\ served = 0
    /\ req = noRequest
    /\ resp = noResponse
    /\ fnArgs = noCase
    /\ fnResult \in [file : {MissingFile, EmptyObject, ArrayFile(<<>>)},
                     calls : {0}, returned : {FALSE}]

NextHistory ==
    \/ \E formData \in HistoryCases, readFails \in BOOLEAN, saveFails \in BOOLEAN :
          moveCompletedFormToHistory(formData, readFails, saveFails)
    \/ Tick

SpecHistory == InitHistory /\ [][NextHistory]_vars

----------------------------------------------------------------------------
(* GET /certificates and GET /certificates/:certId/download over           *)
(* ./data/certificates.json (the active certificates) and                  *)
(* ./data/form_history.json.  fnArgs holds the two stores, fnResult the    *)
(* request served and its response.                                        *)

CertDates == {1, 2}      \* generatedAt of a certificate

DISPOSAL == "disposalFormData"

\* the case a form id names belongs to one employee
CaseOwner ==
    [F1 |-> "E1", F2 |-> "E1", F3 |-> "E1", F5 |-> "E1", F6 |-> "E1", F4 |-> "E2"]

ListedFormIds == DOMAIN CaseOwner

activeId(formId, formType) == <<"cert", formId, formType>>

\* `hist_${archived.formId}_${cert.formType}`
historicalCertId(formId, formType) == <<"hist", formId, formType>>

\* certificate.filepath: the file the generation of the certificate wrote
certificateFile(formId, formType, date) == <<"pdf", formId, formType, date>>

\* a record of certificates.json
activeCertificate(formId, date) ==
    [id |-> activeId(formId, DISPOSAL), employeeId |-> CaseOwner[formId],
     formId |-> formId, formType |-> DISPOSAL, generatedAt |-> date,
     filepath |-> certificateFile(formId, DISPOSAL, date)]

\* a record of form_history.json; withCertificates: preservedData.certificates
\* is there
archivedCaseOf(formId, employeeId, date, withCertificates) ==
    [formId |-> formId, employeeId |-> employeeId, completedAt |-> date,
     withCertificates |-> withCertificates,
     certificates |-> IF withCertificates
                      THEN <<[formType |-> DISPOSAL, generatedAt |-> date,
                              filepath |-> certificateFile(formId, DISPOSAL, date)]>>
                      ELSE <<>>]

archivedCase(formId, date, withCertificates) ==
    archivedCaseOf(formId, CaseOwner[formId], date, withCertificates)

\* n copies of x
copies(n, x) == [i \in 1..n |-> x]

optional(present, x) == IF present THEN <<x>> ELSE <<>>

\* the stores: the certificates of F1, F5, F6 (E1) and F4 (E2) may be active;
\* F1 may be archived twice, F2, F3 and F4 once, F3 also without certificates;
\* a case of E2 that got the form id F2 as well ('F' + Date.now() of the same
\* millisecond) may be archived with a certificate generated later
CertificateStores ==
    {[active |->
         optional(a[1], activeCertificate("F1", d["F1"]))
         \o optional(a[2], activeCertificate("F5", d["F5"]))
         \o optional(a[3], activeCertificate("F4", 1))
         \o optional(a[4], activeCertificate("F6", 2)),
      history |->
         copies(h[1], archivedCase("F1", d["F1"], TRUE))
         \o optional(h[5], archivedCaseOf("F2", "E2", 3, TRUE))
         \o optional(h[2], archivedCase("F2", d["F2"], TRUE))
         \o optional(h[3] # "none", archivedCase("F3", d["F3"], h[3] = "certificates"))
         \o optional(h[4], archivedCase("F4", 1, TRUE))] :
        a \in BOOLEAN \X BOOLEAN \X BOOLEAN \X BOOLEAN,
        h \in (0..2) \X BOOLEAN \X {"none", "certificates", "bare"} \X BOOLEAN \X BOOLEAN,
        d \in [{"F1", "F2", "F3", "F5"} -> CertDates]}

\* an entry of the list answered
listed(id, formId, formType, employeeId, generatedAt, completedAt, source) ==
    [id |-> id, formId |-> formId, formType |-> formType, employeeId |-> employeeId,
     generatedAt |-> generatedAt, completedAt |-> completedAt, source |-> source]

\* lines 765-779: { ...cert, source: 'active', .. } of the employee's records
activeEntries(active, employeeId) ==
    LET own == SelectSeq(active, LAMBDA cert : cert.employeeId = employeeId)
    IN  [i \in 1..Len(own) |->
            listed(own[i].id, own[i].formId, own[i].formType, own[i].employeeId,
                   own[i].generatedAt, NoDate, "active")]

\* lines 789-806: one entry per certificate of one archived case
entriesOfCase(archived) ==
    [i \in 1..Len(archived.certificates) |->
        listed(historicalCertId(archived.formId, archived.certificates[i].formType),
               archived.formId, archived.certificates[i].formType, undefined,
               archived.certificates[i].generatedAt, archived.completedAt,
               "history")]

RECURSIVE flatEntries(_)
flatEntries(entries) ==
    IF entries = <<>> THEN <<>>
    ELSE entriesOfCase(Head(entries)) \o flatEntries(Tail(entries))

\* lines 782-811
historicalEntries(history, employeeId) ==
    flatEntries(SelectSeq(history,
                          LAMBDA h : h.employeeId = employeeId /\ h.withCertificates))

\* a.generatedAt || a.completedAt
certificateDate(c) == IF c.generatedAt # NoDate THEN c.generatedAt ELSE c.completedAt

\* (a, b) => new Date(b.generatedAt || b.completedAt) - new Date(a.generatedAt || a.completedAt)
certificateCompareFn(a, b) == certificateDate(b) - certificateDate(a)

RECURSIVE insertCertificate(_, _)
insertCertificate(x, s) ==
    IF s = <<>> THEN <<x>>
    ELSE IF certificateCompareFn(Head(s), x) > 0 THEN <<x>> \o s
    ELSE <<Head(s)>> \o insertCertificate(x, Tail(s))

\* allCertificates.sort(..): stable
RECURSIVE sortCertificates(_)
sortCertificates(s) ==
    IF s = <<>> THEN <<>>
    ELSE insertCertificate(s[Len(s)], sortCertificates(SubSeq(s, 1, Len(s) - 1)))

\* the list without the employee filter on the active store
allCertificatesOfEveryone(stores, employeeId) ==
    sortCertificates(
        [i \in 1..Len(stores.active) |->
            listed(stores.active[i].id, stores.active[i].formId,
                   stores.active[i].formType, stores.active[i].employeeId,
                   stores.active[i].generatedAt, NoDate, "active")]
        \o historicalEntries(stores.history, employeeId))

allCertificates(stores, employeeId) ==
    sortCertificates(activeEntries(stores.active, employeeId)
                     \o historicalEntries(stores.history, employeeId))

noListing ==
    [op |-> "none", employeeId |-> "", certId |-> <<>>, code |-> 0, message |-> "",
     certificates |-> <<>>, source |-> ""]

ListReply(op, employeeId, certId, code, message, certificates, source) ==
    [op |-> op, employeeId |-> employeeId, certId |-> certId, code |-> code,
     message |-> message, certificates |-> certificates, source |-> source]

\* GET /certificates
GetCertificates(user) ==
    /\ fnResult.op = "none"
    /\ fnResult' =
          IF user = NO_SESSION
          THEN ListReply("list", user, <<>>, 401, "Not authenticated", <<>>, "")
          ELSE ListReply("list", user, <<>>, 200, "", allCertificates(fnArgs, user), "")
    /\ UNCHANGED <<pendingFile, now, served, req, resp, fnArgs>>

\* the certificate a download resolved: { ...cert, id, employeeId, source }
resolved(id, employeeId, filepath, source) ==
    [id |-> id, employeeId |-> employeeId, filepath |-> filepath, source |-> source]

\* data.find(cert => cert.id === certId && cert.employeeId === employeeId)
findActive(active, certId, employeeId) ==
    LET found == SelectSeq(active,
                           LAMBDA cert : cert.id = certId /\ cert.employeeId = employeeId)
    IN  [i \in 1..Len(found) |->
            resolved(found[i].id, found[i].employeeId, found[i].filepath, "active")]

\* lines 868-882: the certificates of one archived case, as the download
\* builds them
resolvedOfCase(archived) ==
    [i \in 1..Len(archived.certificates) |->
        resolved(historicalCertId(archived.formId, archived.certificates[i].formType),
                 archived.employeeId, archived.certificates[i].filepath, "history")]

RECURSIVE flatResolved(_)
flatResolved(entries) ==
    IF entries = <<>> THEN <<>>
    ELSE resolvedOfCase(Head(entries)) \o flatResolved(Tail(entries))

\* lines 863-888: the search of the history, for ids starting with hist_
findHistorical(history, certId, employeeId) ==
    IF certId[1] # "hist" THEN <<>>
    ELSE SelectSeq(flatResolved(SelectSeq(history,
                                          LAMBDA h : /\ h.employeeId = employeeId
                                                     /\ h.withCertificates)),
                   LAMBDA c : c.id = certId)

\* the download that resolves the certificate by its id alone
DownloadCertificateById(user, certId, fileExists) ==
    /\ fnResult.op = "none"
    /\ LET inActive == [i \in 1..Len(SelectSeq(fnArgs.active, LAMBDA c : c.id = certId)) |->
                           LET cert == SelectSeq(fnArgs.active, LAMBDA c : c.id = certId)[i]
                           IN  resolved(cert.id, cert.employeeId, cert.filepath, "active")]
           inHistory == IF certId[1] # "hist" THEN <<>>
                        ELSE SelectSeq(flatResolved(SelectSeq(fnArgs.history,
                                                              LAMBDA h : h.withCertificates)),
                                       LAMBDA c : c.id = certId)
           found == inActive \o inHistory
           reply(code, message, certificates) ==
               ListReply("download", user, certId, code, message, certificates,
                         IF certificates = <<>> THEN "" ELSE certificates[1].source)
       IN  fnResult' =
              IF user = NO_SESSION THEN reply(401, "Not authenticated", <<>>)
              ELSE IF found = <<>> THEN reply(404, "Certificate not found", <<>>)
              ELSE IF ~fileExists
              THEN reply(404, "Certificate file not found on server", <<>>)
              ELSE reply(200, "", <<found[1]>>)
    /\ UNCHANGED <<pendingFile, now, served, req, resp, fnArgs>>

\* GET /certificates/:certId/download; fileExists: fs.existsSync(filePath).
\* A reply of 200 carries the certificate whose file is streamed.
DownloadCertificate(user, certId, fileExists) ==
    /\ fnResult.op = "none"
    /\ LET inActive == findActive(fnArgs.active, certId, user)
           inHistory == IF inActive = <<>>
                        THEN findHistorical(fnArgs.history, certId, user) ELSE <<>>
           found == inActive \o inHistory
           reply(code, message, certificates) ==
               ListReply("download", user, certId, code, message, certificates,
                         IF certificates = <<>> THEN "" ELSE certificates[1].source)
       IN  fnResult' =
              IF user = NO_SESSION THEN reply(401, "Not authenticated", <<>>)
              ELSE IF found = <<>> THEN reply(404, "Certificate not found", <<>>)
              ELSE IF found[1].employeeId # user THEN reply(403, "Access denied", <<>>)
              ELSE IF ~fileExists
              THEN reply(404, "Certificate file not found on server", <<>>)
              ELSE reply(200, "", <<found[1]>>)
    /\ UNCHANGED <<pendingFile, now, served, req, resp, fnArgs>>

\* the ids a download may ask for: of every stored certificate, and one of none
CertIds ==
    {activeId(f, DISPOSAL) : f \in ListedFormIds}
    \cup {historicalCertId(f, DISPOSAL) : f \in {"F1", "F2", "F4"}}
    \cup {historicalCertId("F9", DISPOSAL)}

InitListing ==
    /\ pendingFile = MissingFile
    /\ now = 1
    /\ served = 0
    /\ req = noRequest
    /\ resp = noResponse
    /\ fnArgs \in CertificateStores
    /\ fnResult = noListing

NextListing ==
    \/ \E user \in Users : GetCertificates(user)
    \/ \E user \in Users, certId \in CertIds, fileExists \in BOOLEAN :
          DownloadCertificate(user, certId, fileExists)

SpecListing == InitListing /\ [][NextListing]_vars

----------------------------------------------------------------------------
(* GET /assigned-forms and GET /dashboard-status: the employee-facing      *)
(* views of the current case, followed by a submission.  fnResult holds    *)
(* the view served and its response.                                       *)

\* status.toLowerCase()
toLowerCase(status) ==
    CASE status = "Pending" -> "pending"
      [] status = "Rejected" -> "rejected"
      [] status = "Rejected by HOD" -> "rejected by hod"
      [] status = SUBMITTED_TO_HOD -> "submitted to hod"
      [] status = SUBMITTED_TO_IT -> "submitted to it"
      [] status = IT_COMPLETED -> "it completed"
      [] OTHER -> status

\* status.toLowerCase().includes('rejected')
includesRejected(status) == toLowerCase(status) \in {"rejected", "rejected by hod"}

NOT_SUBMITTED == "Not Submitted"

noView ==
    [view |-> "none", user |-> "", code |-> 0, applicationStatus |-> "",
     formId |-> "", assignedForms |-> <<>>, canSubmitNew |-> FALSE,
     sessionFormId |-> ""]

\* a response of a view; canSubmitNew is FALSE when the answer has no such key,
\* formId "" when it is null
ViewReply(view, user, code, applicationStatus, formId, assignedForms, canSubmitNew, sessionFormId) ==
    [view |-> view, user |-> user, code |-> code,
     applicationStatus |-> applicationStatus, formId |-> formId,
     assignedForms |-> assignedForms, canSubmitNew |-> canSubmitNew,
     sessionFormId |-> sessionFormId]

\* ['approved', 'Submitted to HOD', 'pending', 'Pending']
assignedFormsStatuses == {"approved", "Submitted to HOD", "pending", "Pending"}

\* GET /assigned-forms
assignedFormsReply(file, user) ==
    LET allForms == loadForms(file)
        myForm == getLatestFormForEmployee(allForms, user, assignedFormsStatuses)
    IN  IF user = NO_SESSION
        THEN ViewReply("assigned-forms", user, 401, "", "", <<>>, FALSE, "")
        ELSE IF myForm = nullForm
        THEN ViewReply("assigned-forms", user, 200, NOT_SUBMITTED, "", <<>>, FALSE, "")
        ELSE IF includesRejected(myForm.status)
        THEN ViewReply("assigned-forms", user, 200, "rejected", "", <<>>, TRUE,
                       myForm.formId)
        ELSE ViewReply("assigned-forms", user, 200, myForm.status, myForm.formId,
                       myForm.assignedForms, FALSE, myForm.formId)

\* GET /dashboard-status; its answer has no assignedForms
dashboardStatusReply(file, user) ==
    LET pendingForms == loadForms(file)
        form == getLatestFormForEmployee(pendingForms, user, null)
    IN  IF user = NO_SESSION
        THEN ViewReply("dashboard-status", user, 401, "", "", <<>>, FALSE, "")
        ELSE IF form = nullForm
        THEN ViewReply("dashboard-status", user, 200, NOT_SUBMITTED, "", <<>>, FALSE, "")
        ELSE IF includesRejected(form.status)
        THEN ViewReply("dashboard-status", user, 200, "rejected", "", <<>>, TRUE,
                       form.formId)
        ELSE ViewReply("dashboard-status", user, 200, form.status, form.formId, <<>>,
                       FALSE, form.formId)

GetAssignedForms(user) ==
    /\ fnResult.view = "none"
    /\ fnResult' = assignedFormsReply(pendingFile, user)
    /\ UNCHANGED <<pendingFile, now, served, req, resp, fnArgs>>

GetDashboardStatus(user) ==
    /\ fnResult.view = "none"
    /\ fnResult' = dashboardStatusReply(pendingFile, user)
    /\ UNCHANGED <<pendingFile, now, served, req, resp, fnArgs>>

\* POST /submit-no-dues after the view
SubmitAfterView ==
    /\ fnResult.view # "none"
    /\ served = 0
    /\ \E r \in SubmitRequests : SubmitNoDues(r)

ViewStatuses ==
    {PENDING, SUBMITTED_TO_HOD, IT_COMPLETED, REJECTED, "Rejected", "Rejected by HOD"}

\* a stored case: forms are assigned once the case has left 'pending'
viewCase(i, employeeId, status, date) ==
    [nullForm EXCEPT !.formId = "C" \o ToString(i), !.employeeId = employeeId,
                     !.submittedBy = employeeId, !.status = status,
                     !.submissionDate = date, !.lastUpdated = date,
                     !.assignedForms = IF status = PENDING THEN <<>>
                                       ELSE <<"Disposal Form">>]

ViewCollections(n) ==
    {[i \in 1..n |-> viewCase(i, c[i][1], c[i][2], c[i][3])] :
        c \in [1..n -> Employees \X ViewStatuses \X {1, 2}]}

InitViews ==
    /\ now = 1
    /\ served = 0
    /\ req = noRequest
    /\ resp = noResponse
    /\ fnArgs = noArgs
    /\ fnResult = noView
    /\ \E n \in 0..2 : \E forms \in ViewCollections(n) : pendingFile = ArrayFile(forms)

NextViews ==
    \/ \E user \in Users : GetAssignedForms(user)
    \/ \E user \in Users : GetDashboardStatus(user)
    \/ SubmitAfterView

SpecViews == InitViews /\ [][NextViews]_vars

----------------------------------------------------------------------------
(* NotificationManager: notifyFormRejection, notifyFormApproval and        *)
(* notifyCertificatesReady.  An operation that may throw answers a record  *)
(* with the manager's state and whether an error is propagating; try/catch *)
(* stops the error.  fnResult holds the manager (connected clients, queue),*)
(* ./data/notifications.json and the outcome of the last call.             *)

MaxNotifications == 2   \* notify calls in a behaviour

NotificationTypes == {"form_rejection", "form_approval", "certificates_ready"}

\* employeeId as given by the caller; "" is a missing id
NotifiedIds == Employees \cup {""}

notification(type, employeeId) == [type |-> type, employeeId |-> employeeId]

\* the manager: messages sent per call are counted in `sent`
outcome(manager, thrown) == [manager |-> manager, thrown |-> thrown]

\* a catch block that rethrows
rethrowError(attempt, handled) == attempt

\* try { attempt } catch (error) { handled }
catchError(attempt, handled) ==
    IF attempt.thrown THEN outcome(handled, FALSE) ELSE attempt

\* `if (queue.length > 1000) queue = queue.slice(-1000)`
lastThousand(s) == IF Len(s) > 1000 THEN SubSeq(s, Len(s) - 999, Len(s)) ELSE s

queueNotification(manager, n) ==
    [manager EXCEPT !.queue = lastThousand(Append(@, n))]

\* client.send(..): throws when the socket fails
clientSend(manager, sendFails) ==
    outcome([manager EXCEPT !.sent = @ + 1], sendFails)

isOpen(manager, employeeId) ==
    employeeId \in DOMAIN manager.clients /\ manager.clients[employeeId] = "open"

sendRealTimeNotification(manager, n, sendFails) ==
    IF isOpen(manager, n.employeeId)
    THEN catchError(IF sendFails THEN outcome(manager, TRUE)
                    ELSE clientSend(manager, FALSE),
                    queueNotification(manager, n))
    ELSE outcome(queueNotification(manager, n), FALSE)

sendBrowserNotification(manager, n, sendFails) ==
    IF isOpen(manager, n.employeeId)
    THEN catchError(IF sendFails THEN outcome(manager, TRUE)
                    ELSE clientSend(manager, FALSE),
                    manager)
    ELSE outcome(manager, FALSE)

\* runs the second operation unless the first threw
andThen(first, second(_)) == IF first.thrown THEN first ELSE second(first.manager)

sendMultiChannelNotification(manager, n, realTimeFails, browserFails) ==
    IF n.employeeId = "" THEN outcome(manager, FALSE)
    ELSE andThen(sendRealTimeNotification(manager, n, realTimeFails),
                 LAMBDA m : sendBrowserNotification(m, n, browserFails))

\* the log read as logNotification reads it
loadNotifications(file) == IF IsArray(loadJSON(file)) THEN loadJSON(file).forms ELSE <<>>

logNotification(manager, n, saveFails) ==
    catchError(
        IF saveFails THEN outcome(manager, TRUE)
        ELSE outcome([manager EXCEPT
                         !.log = ArrayFile(lastThousand(Append(loadNotifications(@), n)))],
                     FALSE),
        manager)

\* the three static methods: build the data, send, log, return the data
notify(manager, n, realTimeFails, browserFails, saveFails) ==
    andThen(sendMultiChannelNotification([manager EXCEPT !.sent = 0], n,
                                         realTimeFails, browserFails),
            LAMBDA m : logNotification(m, n, saveFails))

noNotification == notification("", "")

Notify(type, employeeId, realTimeFails, browserFails, saveFails) ==
    /\ fnResult.calls < MaxNotifications
    /\ fnArgs' = [n |-> notification(type, employeeId), realTimeFails |-> realTimeFails,
                  browserFails |-> browserFails, saveFails |-> saveFails]
    /\ LET result == notify(fnResult.manager, notification(type, employeeId),
                            realTimeFails, browserFails, saveFails)
       IN  fnResult' = [manager |-> result.manager, calls |-> fnResult.calls + 1,
                        thrown |-> result.thrown]
    /\ UNCHANGED <<pendingFile, now, served, req, resp>>

\* the 'identify' message: the client is registered and the employee's queued
\* notifications are sent and removed from the queue
Identify(employeeId) ==
    /\ fnResult.manager.clients[employeeId] # "open"
    /\ fnResult' = [fnResult EXCEPT
                       !.manager.clients[employeeId] = "open",
                       !.manager.queue =
                           SelectSeq(@, LAMBDA n : n.employeeId # employeeId)]
    /\ UNCHANGED <<pendingFile, now, served, req, resp, fnArgs>>

\* the socket starts closing (readyState is no longer OPEN), or 'close' /
\* 'error' removed the client
Disconnect(employeeId, state) ==
    /\ fnResult.manager.clients[employeeId] = "open"
    /\ fnResult' = [fnResult EXCEPT !.manager.clients[employeeId] = state]
    /\ UNCHANGED <<pendingFile, now, served, req, resp, fnArgs>>

InitNotify ==
    /\ pendingFile = MissingFile
    /\ now = 1
    /\ served = 0
    /\ req = noRequest
    /\ resp = noResponse
    /\ fnArgs = [n |-> noNotification, realTimeFails |-> FALSE, browserFails |-> FALSE,
                 saveFails |-> FALSE]
    /\ fnResult \in
          [manager : [clients : {[e \in Employees |-> "none"]}, queue : {<<>>},
                      sent : {0}, log : {MissingFile, EmptyObject, ArrayFile(<<>>)}],
           calls : {0}, thrown : {FALSE}]

NextNotify ==
    \/ \E type \in NotificationTypes, employeeId \in NotifiedIds,
          realTimeFails \in BOOLEAN, browserFails \in BOOLEAN, saveFails \in BOOLEAN :
          Notify(type, employeeId, realTimeFails, browserFails, saveFails)
    \/ \E employeeId \in Employees : Identify(employeeId)
    \/ \E employeeId \in Employees, state \in {"closing", "none"} :
          Disconnect(employeeId, state)

SpecNotify == InitNotify /\ [][NextNotify]_vars

----------------------------------------------------------------------------
(* Overlapping callers.  Several requests are in flight at once (received  *)
(* by the server, not yet answered).  A handler is one JavaScript function *)
(* call: savePartialForm is declared async but awaits nothing, final-submit *)
(* is a plain function, and loadJSON / saveJSON use readFileSync /         *)
(* writeFileSync, so the handler's load, its modification and its save are *)
(* steps of one turn of the event loop.  The steps are kept apart here so  *)
(* that what the turn excludes can be stated.                              *)
(* fnArgs is the sequence of requests in flight, each with the position of *)
(* its handler and the collection it loaded.                               *)

MaxCallers == 2    \* requests in flight in a behaviour

\* no other handler is between its load and its save: a function that does
\* not await is not interrupted by another callback
turnFreeAlways(callers, i) == TRUE

turnFree(callers, i) == \A j \in DOMAIN callers : j # i => callers[j].pc # "loaded"

\* what savePartialForm does with the collection it loaded: the response and
\* the collection it hands to saveJSON (written when the code is 200)
savePartialFormOutcome(allForms, r, t) ==
    LET storageKey == storageKeyOf[r.reqKey]
        latestForm == getLatestFormForEmployee(allForms, r.user, null)
        formIndex == IF latestForm # nullForm THEN findIndex(allForms, latestForm.formId) ELSE 0
        inputData == IF r.input.type = "undefined" THEN REQ_BODY ELSE r.input
        parsed == IF inputData.type = "string" THEN JSONparse(inputData.value)
                  ELSE [thrown |-> FALSE, type |-> inputData.type, value |-> inputData.value]
        Answer(code, message, forms) ==
            [reply |-> IF formIndex = 0 THEN Reply(code, message, "", "")
                       ELSE WithSession(Reply(code, message, "", ""), latestForm.formId, ""),
             forms |-> forms]
    IN  IF r.user = NO_SESSION THEN Answer(401, "Session expired", allForms)
        ELSE IF formIndex = 0
        THEN Answer(404, "No pending form found for this employee. Please submit initial application first.", allForms)
        ELSE IF parsed.thrown
        THEN Answer(400, "Invalid JSON format for " \o storageKey, allForms)
        ELSE IF parsed.type # "object"
        THEN Answer(400, "Invalid data format for " \o storageKey, allForms)
        ELSE IF ~r.saveOk
        THEN Answer(500, "Failed to save " \o storageKey, allForms)
        ELSE Answer(200, storageKey \o " saved successfully",
                    [allForms EXCEPT ![formIndex] = setResponse(@, storageKey, parsed.value, t)])

\* what POST /final-submit does with the collection it loaded
finalSubmitOutcome(pendingForms, r, t) ==
    LET latestForm == getLatestFormForEmployee(pendingForms, r.user, null)
        formIndex == IF latestForm # nullForm THEN findIndex(pendingForms, latestForm.formId) ELSE 0
        form == pendingForms[formIndex]
        Fail(code, message) == [reply |-> Reply(code, message, "", ""), forms |-> pendingForms]
    IN  IF r.user = NO_SESSION THEN Fail(401, "Session expired")
        ELSE IF formIndex = 0 THEN Fail(404, "No pending form found for this employee")
        ELSE IF ~isValidObject(r.disposalForm) THEN Fail(400, MSG_DISPOSAL)
        ELSE IF ~isValidObject(r.efileForm) THEN Fail(400, MSG_EFILE)
        ELSE IF ~isValidObject(r.form365Transfer) /\ ~isValidObject(r.form365Disposal)
        THEN Fail(400, MSG_FORM365)
        ELSE IF ~r.saveOk
        THEN [reply |-> WithSession(Reply(500, "Failed to save form submission", "", ""),
                                    form.formId, ""),
              forms |-> pendingForms]
        ELSE [reply |-> WithSession(Reply(200, "Forms submitted to HOD for review",
                                          form.formId, SUBMITTED_TO_HOD),
                                    form.formId, ""),
              forms |-> [pendingForms EXCEPT ![formIndex] =
                            finalSubmitForm(@, r.disposalForm, r.efileForm,
                                            r.form365Transfer, r.form365Disposal, t)]]

handlerOutcome(allForms, r, t) ==
    IF r.op = "save" THEN savePartialFormOutcome(allForms, r, t)
    ELSE finalSubmitOutcome(allForms, r, t)

\* the requests of the callers
CallerRequests ==
    {r \in SaveRequests :
        /\ r.user \in Employees
        /\ r.reqKey \in {"disposalForm", "efileForm"}
        /\ r.input \in {Obj("o1"), Str(JSON_BAD)}}
    \cup
    {r \in FinalRequests :
        /\ r.user \in Employees
        /\ r.disposalForm = Obj("o1") /\ r.efileForm = Obj("o1")
        /\ r.form365Transfer = Obj("o1") /\ r.form365Disposal = Absent}

\* the server receives a request; its handler has not run yet
Arrive(r) ==
    /\ Len(fnArgs) < MaxCallers
    /\ fnArgs' = Append(fnArgs, [r |-> r, pc |-> "received", allForms |-> <<>>])
    /\ served' = served + 1
    /\ UNCHANGED <<pendingFile, now, req, resp, fnResult>>

\* the handler of request i starts and loads the collection
HandlerLoads(i) ==
    /\ fnArgs[i].pc = "received"
    /\ turnFree(fnArgs, i)
    /\ fnArgs' = [fnArgs EXCEPT ![i].pc = "loaded",
                                ![i].allForms = loadForms(pendingFile)]
    /\ UNCHANGED <<pendingFile, now, served, req, resp, fnResult>>

\* the handler of request i modifies what it loaded, saves it and answers
HandlerSaves(i) ==
    /\ fnArgs[i].pc = "loaded"
    /\ LET result == handlerOutcome(fnArgs[i].allForms, fnArgs[i].r, now)
       IN  /\ pendingFile' = IF result.reply.code = 200 THEN ArrayFile(result.forms)
                             ELSE pendingFile
           /\ req' = fnArgs[i].r
           /\ resp' = result.reply
           /\ fnResult' = Append(fnResult, i)
    /\ fnArgs' = [fnArgs EXCEPT ![i].pc = "done"]
    /\ UNCHANGED <<now, served>>

\* the store when the callers arrive: E1 has submitted a case, E2 has none
InitTurns ==
    /\ pendingFile = ArrayFile(<<newForm("E1", 1)>>)
    /\ now = 1
    /\ served = 0
    /\ req = noRequest
    /\ resp = noResponse
    /\ fnArgs = <<>>
    /\ fnResult = <<>>

NextTurns ==
    \/ Tick
    \/ \E r \in CallerRequests : Arrive(r)
    \/ \E i \in DOMAIN fnArgs : HandlerLoads(i)
    \/ \E i \in DOMAIN fnArgs : HandlerSaves(i)

SpecTurns == InitTurns /\ [][NextTurns]_vars

----------------------------------------------------------------------------
(* POST /submit-no-dues when the read of pending_forms.json may fail:      *)
(* readFileSync or JSON.parse throws, loadJSON catches and answers {}.     *)
(* The file is missing, holds {} or holds the array of cases.              *)

SubmitLoading(r, readFails) ==
    SubmitNoDuesLoaded(r, loadJSONOrFail(pendingFile, readFails))

InitStore ==
    /\ pendingFile \in {MissingFile, EmptyObject, ArrayFile(<<>>)}
    /\ now = 1
    /\ served = 0
    /\ req = noRequest
    /\ resp = noResponse
    /\ fnArgs = noArgs
    /\ fnResult = nullForm

NextStore ==
    \/ Tick
    \/ \E r \in SubmitRequests, readFails \in BOOLEAN : SubmitLoading(r, readFails)
    \/ \E i \in 1..Len(loadForms(pendingFile)) : Reject(i)

SpecStore == InitStore /\ [][NextStore]_vars

----------------------------------------------------------------------------
(* NotificationManager: the WebSocket connections.  connectedClients maps  *)
(* an employee id to a connection object; a connection carries its         *)
(* readyState and the employeeId its last 'identify' message set.  The     *)
(* manager's `clients` is what connectedClients.get(e) answers, seen       *)
(* through readyState: "none" when the employee has no entry.  `sent`      *)
(* counts the notifications handed to client.send by the last call.        *)

MaxSockets == 2    \* connections made in a behaviour

SocketIds == 1..MaxSockets

noSocket == 0      \* connectedClients.get(e) is undefined

\* connectedClients.get(e)?.readyState for every employee
readyStates(connected, sockets) ==
    [e \in Employees |->
        IF connected[e] = noSocket THEN "none" ELSE sockets[connected[e]].readyState]

withSockets(manager, connected, sockets) ==
    [manager EXCEPT !.connected = connected, !.sockets = sockets,
                    !.clients = readyStates(connected, sockets)]

\* removeClient(ws): the entry of ws.employeeId is deleted, whichever
\* connection it holds; a connection without employeeId is looked up by identity
removeClient(manager, s) ==
    LET employeeId == manager.sockets[s].employeeId
    IN  withSockets(manager,
                    [e \in Employees |->
                        IF employeeId # "" /\ e = employeeId THEN noSocket
                        ELSE IF employeeId = "" /\ manager.connected[e] = s THEN noSocket
                        ELSE manager.connected[e]],
                    manager.sockets)

\* queuedNotifications.forEach(n => this.sendRealTimeNotification(employeeId, n))
RECURSIVE sendEach(_, _, _)
sendEach(manager, notifications, sendFails) ==
    IF notifications = <<>> THEN manager
    ELSE sendEach(sendRealTimeNotification(manager, Head(notifications), sendFails).manager,
                  Tail(notifications), sendFails)

\* sendQueuedNotifications(employeeId)
sendQueuedNotifications(manager, employeeId, sendFails) ==
    LET queuedNotifications == SelectSeq(manager.queue, LAMBDA n : n.employeeId = employeeId)
    IN  IF queuedNotifications = <<>> THEN manager
        ELSE [sendEach(manager, queuedNotifications, sendFails) EXCEPT
                 !.queue = SelectSeq(@, LAMBDA n : n.employeeId # employeeId)]

SocketStep(manager) ==
    /\ fnResult' = [fnResult EXCEPT !.manager = manager]
    /\ UNCHANGED <<pendingFile, now, served, req, resp, fnArgs>>

\* wsServer.on('connection')
Connect(s) ==
    /\ fnResult.manager.sockets[s].readyState = "idle"
    /\ \A t \in SocketIds : t < s => fnResult.manager.sockets[t].readyState # "idle"
    /\ SocketStep(withSockets(fnResult.manager, fnResult.manager.connected,
                              [fnResult.manager.sockets EXCEPT ![s].readyState = "open"]))

\* ws.on('message') with { type: 'identify', employeeId }: the connection is
\* registered, the confirmation is sent and the queue of the employee is
\* flushed; sendFails: client.send throws for the queued notifications
IdentifyOn(s, employeeId, sendFails) ==
    /\ fnResult.manager.sockets[s].readyState = "open"
    /\ LET registered ==
               withSockets([fnResult.manager EXCEPT !.sent = 0],
                           [fnResult.manager.connected EXCEPT ![employeeId] = s],
                           [fnResult.manager.sockets EXCEPT ![s].employeeId = employeeId])
       IN  SocketStep(sendQueuedNotifications(registered, employeeId, sendFails))

\* the closing handshake has started or the connection was terminated: the
\* readyState is CLOSING and 'close' has not been emitted yet
StartClosing(s) ==
    /\ fnResult.manager.sockets[s].readyState = "open"
    /\ SocketStep(withSockets(fnResult.manager, fnResult.manager.connected,
                              [fnResult.manager.sockets EXCEPT ![s].readyState = "closing"]))

\* ws.on('error'): removeClient(ws); the connection is then closed
ErrorEvent(s) ==
    /\ fnResult.manager.sockets[s].readyState = "open"
    /\ SocketStep(removeClient(
           withSockets(fnResult.manager, fnResult.manager.connected,
                       [fnResult.manager.sockets EXCEPT ![s].readyState = "closing"]),
           s))

\* ws.on('close'): removeClient(ws)
CloseEvent(s) ==
    /\ fnResult.manager.sockets[s].readyState \in {"open", "closing"}
    /\ SocketStep(removeClient(
           withSockets(fnResult.manager, fnResult.manager.connected,
                       [fnResult.manager.sockets EXCEPT ![s].readyState = "closed"]),
           s))

\* cleanupExpiredNotifications: the k oldest entries of the queue have expired
\* (expiresAt is set when an entry is queued, so it grows along the queue)
CleanupExpired(k) ==
    /\ k \in 1..Len(fnResult.manager.queue)
    /\ SocketStep([fnResult.manager EXCEPT !.queue = SubSeq(@, k + 1, Len(@))])

InitSockets ==
    /\ pendingFile = MissingFile
    /\ now = 1
    /\ served = 0
    /\ req = noRequest
    /\ resp = noResponse
    /\ fnArgs = [n |-> noNotification, realTimeFails |-> FALSE, browserFails |-> FALSE,
                 saveFails |-> FALSE]
    /\ fnResult =
          [manager |->
              [clients |-> [e \in Employees |-> "none"], queue |-> <<>>, sent |-> 0,
               log |-> ArrayFile(<<>>),
               connected |-> [e \in Employees |-> noSocket],
               sockets |-> [s \in SocketIds |-> [readyState |-> "idle", employeeId |-> ""]]],
           calls |-> 0, thrown |-> FALSE]

NextSockets ==
    \/ \E employeeId \in Employees, realTimeFails \in BOOLEAN :
          Notify("form_approval", employeeId, realTimeFails, FALSE, FALSE)
    \/ \E s \in SocketIds : Connect(s)
    \/ \E s \in SocketIds, employeeId \in Employees, sendFails \in BOOLEAN :
          IdentifyOn(s, employeeId, sendFails)
    \/ \E s \in SocketIds : StartClosing(s)
    \/ \E s \in SocketIds : ErrorEvent(s)
    \/ \E s \in SocketIds : CloseEvent(s)
    \/ \E k \in 1..MaxNotifications : CleanupExpired(k)

SpecSockets == InitSockets /\ [][NextSockets]_vars

----------------------------------------------------------------------------
(* OTPManager: login_sessions.json maps a session token to                 *)
(* {employeeId, otp, expiresAt, attempts, verified}.  Here pendingFile is  *)
(* that file, served counts the calls, req is the last call and resp what  *)
(* it returned.  fnArgs records, per token, the OTP issued last and what   *)
(* happened to it: how often a candidate was compared against it and how   *)
(* often verifyOTP succeeded.  fnResult counts the tokens handed out       *)
(* (uuidv4 never repeats one).                                             *)

MaxOtpSessions == 1   \* session tokens created in a behaviour
MaxOtpCalls == 6      \* calls of the OTPManager in a behaviour

SessionTokens == 1..MaxOtpSessions
UNKNOWN_TOKEN == 0               \* a token no session was created with
OtpValues == {"111111", "222222"}  \* generateOTP

\* parseInt(process.env.MAX_OTP_ATTEMPTS) || 3, the variable unset
maxAttempts == 3
\* parseInt(process.env.OTP_EXPIRY_MINUTES) || 10, one reading of the clock
expiryMinutes == 1

noSessions == [t \in {} |-> 0]
SessionsFile(sessions) == [kind |-> "object", sessions |-> sessions]

\* loadJSON(this.loginSessionsPath): {} for a missing or unreadable file
loadSessions(file, readFails) ==
    IF readFails \/ file.kind = "missing" THEN noSessions ELSE file.sessions

\* delete sessions[sessionToken]
deleteSession(sessions, token) ==
    [t \in DOMAIN sessions \ {token} |-> sessions[t]]

\* sessions[sessionToken] = {...} / an updated session
putSession(sessions, token, session) ==
    [t \in DOMAIN sessions \cup {token} |-> IF t = token THEN session ELSE sessions[t]]

\* new Date() > new Date(session.expiresAt)
otpExpired(session, t) == t > session.expiresAt

neverVerified(session) == FALSE
\* if (session.verified)
alreadyVerified(session) == session.verified

attemptsNeverExceeded(session) == FALSE
\* if (session.attempts >= maxAttempts)
attemptsExceeded(session) == session.attempts >= maxAttempts

otpResult(success, message) == [success |-> success, message |-> message]

\* verifyOTP: the sessions it saves (the loaded ones where it saves nothing),
\* what it returns, and whether the candidate was compared with session.otp
verifyOTP(sessions, sessionToken, otp, t) ==
    IF sessionToken \notin DOMAIN sessions
    THEN [saved |-> FALSE, sessions |-> sessions, compared |-> FALSE,
          result |-> otpResult(FALSE, "Invalid or expired session")]
    ELSE LET session == sessions[sessionToken] IN
         IF alreadyVerified(session)
         THEN [saved |-> FALSE, sessions |-> sessions, compared |-> FALSE,
               result |-> otpResult(FALSE, "OTP already used")]
         ELSE IF otpExpired(session, t)
         THEN [saved |-> TRUE, sessions |-> deleteSession(sessions, sessionToken),
               compared |-> FALSE,
               result |-> otpResult(FALSE, "OTP expired. Please request a new one.")]
         ELSE IF attemptsExceeded(session)
         THEN [saved |-> TRUE, sessions |-> deleteSession(sessions, sessionToken),
               compared |-> FALSE,
               result |-> otpResult(FALSE, "Maximum attempts exceeded. Please request a new OTP.")]
         ELSE IF session.otp # otp
         THEN [saved |-> TRUE,
               sessions |-> putSession(sessions, sessionToken,
                               [session EXCEPT !.attempts = @ + 1]),
               compared |-> TRUE,
               result |-> otpResult(FALSE, "Invalid OTP")]
         ELSE [saved |-> TRUE,
               sessions |-> putSession(sessions, sessionToken,
                               [session EXCEPT !.verified = TRUE]),
               compared |-> TRUE,
               result |-> otpResult(TRUE, "OTP verified successfully")]

noIssue == [otp |-> "", compared |-> 0, succeeded |-> 0]
issue(otp) == [otp |-> otp, compared |-> 0, succeeded |-> 0]

OtpCall(op, token, otp) ==
    /\ served < MaxOtpCalls
    /\ served' = served + 1
    /\ req' = [op |-> op, sessionToken |-> token, otp |-> otp]
    /\ UNCHANGED now

\* createLoginSession(employeeId, email): the session is saved before the
\* mail is sent; when sendMail fails the caller gets no token
CreateLoginSession(employeeId, otp, sendFails, readFails) ==
    LET sessionToken == fnResult + 1
        sessions == loadSessions(pendingFile, readFails)
    IN  /\ fnResult < MaxOtpSessions
        /\ OtpCall("createLoginSession", sessionToken, otp)
        /\ pendingFile' = SessionsFile(putSession(sessions, sessionToken,
                              [employeeId |-> employeeId, otp |-> otp,
                               expiresAt |-> now + expiryMinutes,
                               attempts |-> 0, verified |-> FALSE]))
        /\ fnResult' = sessionToken
        /\ fnArgs' = [fnArgs EXCEPT ![sessionToken] = issue(otp)]
        /\ resp' = IF sendFails
                   THEN otpResult(FALSE, "Failed to send OTP. Please try again.")
                   ELSE otpResult(TRUE, "OTP sent")

VerifyOTP(sessionToken, otp, readFails) ==
    LET out == verifyOTP(loadSessions(pendingFile, readFails), sessionToken, otp, now)
    IN  /\ OtpCall("verifyOTP", sessionToken, otp)
        /\ pendingFile' = IF out.saved THEN SessionsFile(out.sessions) ELSE pendingFile
        /\ resp' = out.result
        /\ fnArgs' = IF sessionToken \in SessionTokens
                     THEN [fnArgs EXCEPT ![sessionToken] =
                              [@ EXCEPT !.compared = @ + (IF out.compared THEN 1 ELSE 0),
                                        !.succeeded = @ + (IF out.result.success THEN 1 ELSE 0)]]
                     ELSE fnArgs
        /\ UNCHANGED fnResult

\* resendOTP(sessionToken): a new OTP, a new expiry, attempts and verified reset
ResendOTP(sessionToken, newOTP, sendFails, readFails) ==
    LET sessions == loadSessions(pendingFile, readFails)
    IN  /\ OtpCall("resendOTP", sessionToken, newOTP)
        /\ UNCHANGED fnResult
        /\ IF sessionToken \notin DOMAIN sessions
           THEN /\ resp' = otpResult(FALSE, "Invalid session")
                /\ UNCHANGED <<pendingFile, fnArgs>>
           ELSE /\ pendingFile' = SessionsFile(putSession(sessions, sessionToken,
                                     [sessions[sessionToken] EXCEPT
                                         !.otp = newOTP,
                                         !.expiresAt = now + expiryMinutes,
                                         !.attempts = 0,
                                         !.verified = FALSE]))
                /\ fnArgs' = [fnArgs EXCEPT ![sessionToken] = issue(newOTP)]
                /\ resp' = IF sendFails
                           THEN otpResult(FALSE, "Failed to resend OTP")
                           ELSE otpResult(TRUE, "New OTP sent successfully")

\* cleanupExpiredSessions, every five minutes: saves only when it deleted one
CleanupExpiredSessions(readFails) ==
    LET sessions == loadSessions(pendingFile, readFails)
        expired == {t \in DOMAIN sessions : sessions[t].expiresAt < now}
    IN  /\ expired # {}
        /\ pendingFile' = SessionsFile([t \in DOMAIN sessions \ expired |-> sessions[t]])
        /\ UNCHANGED <<now, served, req, resp, fnArgs, fnResult>>

InitOtp ==
    /\ pendingFile = MissingFile
    /\ now = 0
    /\ served = 0
    /\ req = [op |-> "", sessionToken |-> UNKNOWN_TOKEN, otp |-> ""]
    /\ resp = otpResult(FALSE, "")
    /\ fnArgs = [t \in SessionTokens |-> noIssue]
    /\ fnResult = 0

NextOtp ==
    \/ Tick
    \/ \E employeeId \in Employees, otp \in OtpValues, sendFails, readFails \in BOOLEAN :
          CreateLoginSession(employeeId, otp, sendFails, readFails)
    \/ \E sessionToken \in SessionTokens \cup {UNKNOWN_TOKEN}, otp \in OtpValues, readFails \in BOOLEAN :
          VerifyOTP(sessionToken, otp, readFails)
    \/ \E sessionToken \in SessionTokens \cup {UNKNOWN_TOKEN}, newOTP \in OtpValues, sendFails, readFails \in BOOLEAN :
          ResendOTP(sessionToken, newOTP, sendFails, readFails)
    \/ \E readFails \in BOOLEAN : CleanupExpiredSessions(readFails)

SpecOtp == InitOtp /\ [][NextOtp]_vars

----------------------------------------------------------------------------
(* Properties *)

storedForms == loadForms(pendingFile)

Indices(forms) == 1..Len(forms)

CasesOf(forms, employeeId) == {i \in Indices(forms) : forms[i].employeeId = employeeId}

ActiveCasesOf(forms, employeeId) ==
    {i \in CasesOf(forms, employeeId) : forms[i].status \in ActiveStates}

\* the employee a submission is for
SubmitEmployee(r) == IF r.bodyEmployeeId # "" THEN r.bodyEmployeeId ELSE r.user

\* a submission with a session, all required fields and a file
IsValidSubmit(r) == r.hasBody /\ r.user # NO_SESSION /\ r.hasFile /\ r.fieldsOk

\* the step serves a request of the given route
Served(op) == served' = served + 1 /\ req'.op = op

\* C1: each employee has at most one case in an active status, in every
\* reachable state.
C1_AtMostOneActiveCase ==
    \A e \in Employees : Cardinality(ActiveCasesOf(storedForms, e)) <= 1

IsFreshCase(f, employeeId) ==
    /\ f.employeeId = employeeId
    /\ f.status = "pending"
    /\ f.assignedForms = <<>>
    /\ \A k \in StorageKeys : f.formResponses[k] = undefined

SubmitSucceeded ==
    /\ resp'.code = 200
    /\ pendingFile'.kind = "array"
    /\ Len(pendingFile'.forms) = Len(storedForms) + 1
    /\ SubSeq(pendingFile'.forms, 1, Len(storedForms)) = storedForms
    /\ IsFreshCase(pendingFile'.forms[Len(storedForms) + 1], SubmitEmployee(req'))
    /\ resp'.formId = pendingFile'.forms[Len(storedForms) + 1].formId
    /\ resp'.status = "pending"

\* a valid submission is served for an employee that has no case
SubmitWithoutCases ==
    /\ Served("submit")
    /\ IsValidSubmit(req')
    /\ CasesOf(storedForms, SubmitEmployee(req')) = {}

C4_FormIdsUnique ==
    \A i, j \in Indices(storedForms) :
        i # j => storedForms[i].formId # storedForms[j].formId

\* the cases of the requested employee that pass the allow-list
Candidates(args) ==
    {i \in Indices(args.allForms) :
        /\ args.allForms[i].employeeId = args.employeeId
        /\ (args.allowedStatuses # null => args.allForms[i].status \in args.allowedStatuses)}

\* C5: of two cases of the employee with submissionDate T1 < T2, neither
\* excluded by the allow-list, the one with T1 is never the result, and when
\* they are the employee's only candidates the result is the one with T2,
\* whatever their order in the collection.
C5_LaterSubmissionWins ==
    fnArgs.called =>
        \A i, j \in Candidates(fnArgs) :
            LET a == fnArgs.allForms[i]
                b == fnArgs.allForms[j]
            IN  (a.submissionDate # NoDate /\ b.submissionDate # NoDate
                 /\ a.submissionDate < b.submissionDate)
                => /\ fnResult # a
                   /\ (Candidates(fnArgs) = {i, j} => fnResult = b)

C5_Witness ==
    /\ fnArgs.called
    /\ Candidates(fnArgs) = {1, 3}
    /\ fnArgs.allForms[1].submissionDate = 1
    /\ fnArgs.allForms[3].submissionDate = 2
    /\ fnResult = fnArgs.allForms[3]

\* C6: the result is a case of the collection whose employeeId is the
\* requested one and whose status is literally in the allow-list (when one is
\* given); it is null exactly when no case qualifies; the collection is left
\* as it was.
C6_ResultMatchesFilters ==
    /\ [](fnArgs.called =>
            /\ (fnResult # nullForm =>
                   \E i \in Candidates(fnArgs) : fnResult = fnArgs.allForms[i])
            /\ (fnResult = nullForm <=> Candidates(fnArgs) = {}))
    /\ [][fnArgs'.allForms = fnArgs.allForms]_vars

C6_Witness ==
    /\ fnArgs.called
    /\ fnArgs.allowedStatuses = {"pending"}
    /\ fnResult = nullForm
    /\ \E i \in Indices(fnArgs.allForms) :
          /\ fnArgs.allForms[i].employeeId = fnArgs.employeeId
          /\ fnArgs.allForms[i].status = "Pending"

\* the fields final submit does not write
SameButFinalFields(f, g) ==
    /\ g.formId = f.formId
    /\ g.employeeId = f.employeeId
    /\ g.submissionDate = f.submissionDate
    /\ g.submittedBy = f.submittedBy
    /\ g.assignedForms = f.assignedForms
    /\ g.hodApproval = f.hodApproval

HasCurrentCase(user) ==
    /\ user # NO_SESSION
    /\ CasesOf(storedForms, user) # {}

NotAnObject(x) == x.type # "object"

ClientError(message) ==
    /\ resp'.code = 400
    /\ resp'.message = message
    /\ pendingFile' = pendingFile

\* C8: for an employee with a current case, final submit is answered with a
\* client error when disposalForm is missing or not an object, when efileForm
\* is, and when both form365Transfer and form365Disposal are; the three
\* messages differ.
C8_MissingGroupErrors ==
    [][(Served("final-submit") /\ HasCurrentCase(req'.user))
       => /\ NotAnObject(req'.disposalForm) => ClientError(MSG_DISPOSAL)
          /\ (~NotAnObject(req'.disposalForm) /\ NotAnObject(req'.efileForm))
                => ClientError(MSG_EFILE)
          /\ (/\ ~NotAnObject(req'.disposalForm)
              /\ ~NotAnObject(req'.efileForm)
              /\ NotAnObject(req'.form365Transfer)
              /\ NotAnObject(req'.form365Disposal))
                => ClientError(MSG_FORM365)
          /\ Cardinality({MSG_DISPOSAL, MSG_EFILE, MSG_FORM365}) = 3]_vars

C8_Witness ==
    /\ req.op = "final-submit"
    /\ HasCurrentCase(req.user)
    /\ ~NotAnObject(req.disposalForm)
    /\ ~NotAnObject(req.efileForm)
    /\ req.form365Transfer = Absent
    /\ req.form365Disposal.type = "string"
    /\ resp.code = 400
    /\ resp.message = MSG_FORM365

\* C9: final submit succeeds only on a case whose status is pending; it never
\* moves a case in Submitted to HOD, approved or Submitted to IT (back) to
\* Submitted to HOD.
C9_FinalSubmitOnlyFromPending ==
    [][(Served("final-submit") /\ resp'.code = 200)
       => \A i \in Indices(storedForms) :
             pendingFile'.forms[i] # storedForms[i] => storedForms[i].status = PENDING]_vars

\* C10: once a case is IT Completed or rejected, no submission, partial save
\* or final submit changes its status or its formResponses.
C10_TerminalCasesImmutable ==
    [][(Served("submit") \/ Served("save") \/ Served("final-submit"))
       => \A i \in Indices(storedForms) :
             storedForms[i].status \in TerminalStates
             => /\ pendingFile'.forms[i].status = storedForms[i].status
                /\ pendingFile'.forms[i].formResponses = storedForms[i].formResponses]_vars

\* the object a partial save takes as its payload
payloadOf(r) ==
    IF r.input.type = "undefined" THEN REQ_BODY.value
    ELSE IF r.input.type = "string" THEN JSONparse(r.input.value).value
    ELSE r.input.value

\* the case current-case resolution returns for the employee
IsCurrentCase(forms, i, employeeId) ==
    /\ forms[i].employeeId = employeeId
    /\ forms[i] = getLatestFormForEmployee(forms, employeeId, null)

\* what a partial save of storage key k does to a case
SavedInto(f, g, k, payload) ==
    /\ g.formResponses[k] = payload
    /\ g.lastUpdated = now
    /\ g.status = f.status
    /\ \A other \in StorageKeys \ {k} : g.formResponses[other] = f.formResponses[other]

\* C11: a successful partial save of sub-form key K writes the payload into
\* formResponses[K] of the employee's current case and stamps its lastUpdated,
\* and changes neither that case's status nor any other formResponses key.
C11_PartialSaveWritesCurrentCase ==
    [][(Served("save") /\ resp'.code = 200)
       => \E i \in Indices(storedForms) :
             /\ IsCurrentCase(storedForms, i, req'.user)
             /\ SavedInto(storedForms[i], pendingFile'.forms[i],
                          storageKeyOf[req'.reqKey], payloadOf(req'))]_vars

\* a payload that is malformed text or does not denote an object
BadPayload(x) ==
    \/ x = Str(JSON_BAD)
    \/ x = Str(JSON_5)

\* a request of a signed-in employee that must be refused: a missing field or
\* file, an active case, no current case, a malformed or non-object payload, a
\* missing sub-form group
MustBeRefused(r) ==
    /\ r.user # NO_SESSION
    /\ \/ /\ r.op = "submit"
          /\ r.hasBody
          /\ \/ ~r.hasFile
             \/ ~r.fieldsOk
             \/ ActiveCasesOf(storedForms, SubmitEmployee(r)) # {}
       \/ /\ r.op = "save"
          /\ (CasesOf(storedForms, r.user) = {} \/ BadPayload(r.input))
       \/ /\ r.op = "final-submit"
          /\ \/ CasesOf(storedForms, r.user) = {}
             \/ NotAnObject(r.disposalForm)
             \/ NotAnObject(r.efileForm)
             \/ (NotAnObject(r.form365Transfer) /\ NotAnObject(r.form365Disposal))

EmployeeRoutes == {"submit", "save", "final-submit"}

\* C12: a submission, partial save or final submit that must be refused is
\* answered with a client or not-found error, and every request so answered
\* leaves the persisted collection exactly as it was.
C12_RefusedRequestsLeaveStore ==
    [][(served' = served + 1 /\ req'.op \in EmployeeRoutes)
       => /\ MustBeRefused(req') => resp'.code \in {400, 404}
          /\ resp'.code \in {400, 404} => pendingFile' = pendingFile]_vars

C12_Witness ==
    /\ req.op = "save"
    /\ req.input = Str(JSON_BAD)
    /\ resp.code = 400
    /\ CasesOf(storedForms, req.user) # {}
    /\ \E i \in CasesOf(storedForms, req.user) :
          storedForms[i].formResponses[storageKeyOf[req.reqKey]] = undefined

\* a request that passes every validation and whose write of the store fails
ValidButSaveFails(r) ==
    /\ r.op \in EmployeeRoutes
    /\ r.user # NO_SESSION
    /\ r.op = "submit" => r.hasBody
    /\ ~MustBeRefused(r)
    /\ ~r.saveOk

Ascending(timeline) ==
    \A i \in 1..(Len(timeline) - 1) : timeline[i].date <= timeline[i + 1].date

StepsOf(timeline) == {timeline[i].step : i \in 1..Len(timeline)}

\* a case with a submissionDate and nothing else a timeline event comes from,
\* the approval aside
BareCase(c) ==
    /\ c.submissionDate # NoDate
    /\ c.finalSubmittedAt = NoDate
    /\ c.assignedForms = <<>>
    /\ c.formResponses = emptyResponses
    /\ c.itProcessing = noProcessing
    /\ c.certificates = noCertificates

OnlySubmitted(timeline) ==
    Len(timeline) = 1 /\ timeline[1].step = "submitted"

SubmittedAndApproved(timeline) ==
    /\ Len(timeline) = 2
    /\ StepsOf(timeline) = {"submitted", "hod_approved"}
    /\ Ascending(timeline)

\* C14 as stated: a case with only submissionDate set has the one event
\* submitted; with a hodApproval in addition it has exactly two events, in
\* ascending order of their dates.
C14_Original ==
    \A k \in 1..Len(fnResult) :
        LET c == fnArgs.formData
        IN  /\ (BareCase(c) /\ c.hodApproval = noApproval) => OnlySubmitted(fnResult[k])
            /\ (BareCase(c) /\ c.hodApproval # noApproval) => SubmittedAndApproved(fnResult[k])

\* C14 amended: the same, for a case whose status is pending.
C14_PendingCaseTimeline ==
    \A k \in 1..Len(fnResult) :
        LET c == fnArgs.formData
        IN  c.status = PENDING =>
              /\ (BareCase(c) /\ c.hodApproval = noApproval) => OnlySubmitted(fnResult[k])
              /\ (BareCase(c) /\ c.hodApproval # noApproval)
                    => SubmittedAndApproved(fnResult[k])

\* a pending case approved at a date before its submissionDate: two events,
\* the approval first
C14_Witness ==
    /\ Len(fnResult) >= 1
    /\ fnArgs.formData.status = PENDING
    /\ BareCase(fnArgs.formData)
    /\ fnArgs.formData.hodApproval # noApproval
    /\ Len(fnResult[1]) = 2
    /\ fnResult[1][1].step = "hod_approved"
    /\ fnResult[1][2].step = "submitted"
    /\ fnResult[1][1].date < fnResult[1][2].date

\* C15: every timeline returned is in ascending order of its events' dates,
\* whatever the order the events were emitted in.
C15_TimelineAscending ==
    \A k \in 1..Len(fnResult) : Ascending(fnResult[k])

\* a timeline of at least four events whose first event is not the one
\* emitted first
C15_Witness ==
    /\ Len(fnResult) >= 1
    /\ Len(fnResult[1]) >= 4
    /\ fnArgs.formData.submissionDate # NoDate
    /\ fnResult[1][1].step # "submitted"
    /\ fnResult[1][1].date < fnResult[1][Len(fnResult[1])].date

\* a rejected case: its status contains "rejected", whatever the case
IsRejectedStatus(status) == status \in {"rejected", "Rejected"}

EventsWithStep(timeline, step) == {i \in 1..Len(timeline) : timeline[i].step = step}

\* the step is in the timeline once when the condition holds and not at all
\* otherwise, and then with the given status
EmittedIff(timeline, step, condition, status) ==
    /\ Cardinality(EventsWithStep(timeline, step)) = (IF condition THEN 1 ELSE 0)
    /\ \A i \in EventsWithStep(timeline, step) : timeline[i].status = status

\* C16: each event is in the timeline at most once and exactly under its
\* condition: the review iff the status is not pending (rejected for a rejected
\* case, completed otherwise), forms-assigned iff assignedForms is non-empty,
\* forms-completed iff formResponses is non-empty, the approval iff hodApproval
\* is present, the final processing iff itProcessing is present (completed or
\* rejected by its action), certificates-generated iff the status is IT
\* Completed and certificates is present.
C16_EventsMatchConditions ==
    \A k \in 1..Len(fnResult) :
        LET c == fnArgs.formData
            tl == fnResult[k]
        IN  /\ EmittedIff(tl, "it_reviewed", c.status # PENDING,
                          IF IsRejectedStatus(c.status) THEN "rejected" ELSE "completed")
            /\ EmittedIff(tl, "forms_assigned", c.assignedForms # <<>>, "completed")
            /\ EmittedIff(tl, "forms_completed", c.formResponses # emptyResponses, "completed")
            /\ EmittedIff(tl, "hod_approved", c.hodApproval # noApproval, "completed")
            /\ EmittedIff(tl, "it_processing", c.itProcessing # noProcessing,
                          IF c.itProcessing # noProcessing
                             /\ c.itProcessing[1].action = "completed"
                          THEN "completed" ELSE "rejected")
            /\ EmittedIff(tl, "certificates_generated",
                          c.status = IT_COMPLETED /\ c.certificates # noCertificates,
                          "completed")

\* C17: two calls on the same case return the same events with the same
\* dates.
C17_TimelineIsPure ==
    Len(fnResult) = 2 => fnResult[1] = fnResult[2]

\* the storage key the title of an assigned form stands for
KeyOfTitle(title) ==
    CASE title = "Disposal Form" -> "disposalFormData"
      [] title = "E-File" -> "efileFormData"
      [] title = "Form 365 - Transfer" -> "form365TransferData"
      [] title = "Form 365 - Disposal" -> "form365Data"
      [] OTHER -> undefined

\* C18: the result has one entry per assigned form, in the same order; an
\* entry is completed iff its title stands for a key present in formResponses
\* and pending otherwise; an unknown title is pending and has no key; a case
\* without assigned forms gives the empty list.
C18_FormsStatusPerAssignedForm ==
    fnArgs.called =>
        LET c == fnArgs.formData
        IN  /\ Len(fnResult) = Len(c.assignedForms)
            /\ \A i \in 1..Len(c.assignedForms) :
                  LET key == KeyOfTitle(c.assignedForms[i].title)
                      done == key # undefined /\ c.formResponses[key] # undefined
                  IN  /\ fnResult[i].title = c.assignedForms[i].title
                      /\ fnResult[i].path = c.assignedForms[i].path
                      /\ fnResult[i].status = (IF done THEN "completed" ELSE "pending")
                      /\ fnResult[i].hasData = done
                      /\ fnResult[i].dataKey = key

\* an unknown title and a completed Form 365 disposal in one result
C18_Witness ==
    /\ fnArgs.called
    /\ Len(fnResult) = 2
    /\ fnResult[1].title = "Leave Encashment"
    /\ fnResult[1].status = "pending"
    /\ fnResult[1].dataKey = undefined
    /\ fnResult[2].title = "Form 365 - Disposal"
    /\ fnResult[2].status = "completed"
    /\ fnArgs.formData.formResponses["disposalFormData"] # undefined

\* the form types holding a value of the given kinds
TypesOfKind(kinds) == {t \in CertTypeSet : fnArgs.entries[t] \in kinds}

\* the call has ended: it returned or threw
Settled == fnResult.phase \in {"returned", "failed"}

\* a form id, a formResponses object and the certificate directories
CallInputsOk == fnArgs.formId # "" /\ fnArgs.isObject /\ fnArgs.dirsOk

SucceededTypes == {t \in CertTypeSet : fnResult.units[t] = "success"}

\* C19: with three valid entries and one malformed entry in formResponses,
\* the call succeeds with exactly three artifacts and records exactly one
\* failure.
C19_ThreeValidOneMalformed ==
    (/\ Settled
     /\ CallInputsOk
     /\ Cardinality(TypesOfKind({"object"})) = 3
     /\ Cardinality(TypesOfKind({"string", "null"})) = 1
     /\ \A t \in TypesOfKind({"object"}) : fnResult.units[t] = "success")
    => /\ fnResult.phase = "returned"
       /\ Len(fnResult.certificates) = 3
       /\ fnResult.failedCount = 1

\* C20: the call fails as a whole exactly when no artifact succeeded, which is
\* when no entry is a non-null object or every such entry's generation failed;
\* otherwise it returns exactly the artifacts that succeeded, one per
\* successful entry, and no failed entry is in the list.
C20_FailsIffNoArtifact ==
    Settled =>
        /\ fnResult.phase = "failed" <=> SucceededTypes = {}
        /\ CallInputsOk =>
              (SucceededTypes = {} <=>
                  \/ TypesOfKind({"object"}) = {}
                  \/ \A t \in TypesOfKind({"object"}) : fnResult.units[t] = "failed")
        /\ fnResult.phase = "failed" => fnResult.certificates = <<>>
        /\ fnResult.phase = "returned" =>
              /\ Len(fnResult.certificates) = Cardinality(SucceededTypes)
              /\ {fnResult.certificates[i].formType :
                     i \in 1..Len(fnResult.certificates)} = SucceededTypes
              /\ \A i \in 1..Len(fnResult.certificates) :
                    fnResult.certificates[i].status = "success"

\* two artifacts returned, one entry failed and left out
C20_Witness ==
    /\ fnResult.phase = "returned"
    /\ Len(fnResult.certificates) = 2
    /\ fnResult.failedCount = 1
    /\ \E t \in CertTypeSet :
          /\ fnResult.units[t] = "failed"
          /\ \A i \in 1..Len(fnResult.certificates) : fnResult.certificates[i].formType # t

\* the units the call started: one per valid entry
StartedTypes == {t \in CertTypeSet : fnResult.units[t] # "none"}

UnitSettled(units, t) == units[t] \in {"success", "failed"}

\* C21: the units of one call run independently under every interleaving: a
\* step settles at most one unit and leaves every other unit as it was, a
\* settled unit keeps its outcome whatever the others do afterwards, a unit
\* still running can succeed whichever units have failed, and the call ends
\* only once every unit has settled as a success or a failure, each counted.
C21_UnitsAreIndependent ==
    [][/\ \A t \in CertTypeSet :
             /\ UnitSettled(fnResult.units, t) => fnResult'.units[t] = fnResult.units[t]
             /\ fnResult'.units[t] # fnResult.units[t] /\ fnResult.phase = "running" =>
                    /\ UnitSettled(fnResult'.units, t)
                    /\ \A u \in CertTypeSet \ {t} : fnResult'.units[u] = fnResult.units[u]
             /\ (fnResult.phase = "running" /\ fnResult.units[t] = "running") =>
                    ENABLED UnitSettles(t, TRUE)
       /\ (fnResult.phase = "running" /\ Settled') =>
             /\ \A t \in StartedTypes : UnitSettled(fnResult.units, t)
             /\ fnResult'.units = fnResult.units
             /\ Len(fnResult'.certificates) + fnResult'.failedCount
                   = Cardinality(StartedTypes)
      ]_vars

\* the call returned with one unit failed and two succeeded
C21_Witness ==
    /\ fnResult.phase = "returned"
    /\ \E t \in CertTypeSet : fnResult.units[t] = "failed"
    /\ Cardinality(SucceededTypes) = 2
    /\ fnResult.failedCount = 1

\* the generation was rejected by its timer or by the size limit
Aborted(gen) == gen.promise = "rejected" /\ gen.reason \in {"timeout", "size"}

\* C22: a generation that exceeds the maximum duration or size is aborted
\* alone: its promise is rejected once and stays so, it takes no further step
\* (writes nothing more) once aborted, and the step that aborts it leaves the
\* other generations and the files as they were.
C22_AbortStopsOnlyThatUnit ==
    [][\A g \in Generations :
          LET gen == fnResult.gens[g]
              after == fnResult'.gens[g]
          IN  /\ gen.promise # "pending" =>
                    (after.promise = gen.promise /\ after.reason = gen.reason)
              /\ Aborted(gen) => after = gen
              /\ (~Aborted(gen) /\ Aborted(after)) =>
                    /\ fnResult'.dir = fnResult.dir
                    /\ \A h \in Generations \ {g} :
                          fnResult'.gens[h] = fnResult.gens[h]
      ]_vars

\* C23: no two generations ever write to the same file path: every path in
\* the certificate directory was opened for writing by one generation only,
\* including generations for the same case and sub-form type.
C23_PathsNeverShared ==
    \A g \in Generations :
        fnResult.gens[g].pc # "idle" =>
            openers(fnResult.dir, fnResult.gens[g].filePath) = {g}

PreservedFields ==
    {"certificates", "hodApproval", "itProcessing", "assignedForms", "formResponses"}

\* the entries stored in the history file
storedHistory(file) == IF file.kind = "array" THEN file.forms ELSE <<>>

\* the last call archived the case fnArgs
Archived == fnResult.calls > 0 /\ fnResult.returned

lastEntry == storedHistory(fnResult.file)[Len(storedHistory(fnResult.file))]

\* C24 as stated: every preserved field of the new entry equals the case's
\* value of that field, whatever that value is.
C24_Original ==
    Archived =>
        \A k \in PreservedFields : lastEntry.preservedData[k] = fnArgs[k]

\* C24: archiving stores in the new entry's preservedData each of
\* certificates, hodApproval, itProcessing, assignedForms and formResponses
\* identical to the case's value when the case has one (an array or object);
\* a missing or null field is stored as its default ([] for certificates and
\* assignedForms, null for hodApproval and itProcessing, {} for
\* formResponses); completedAt is the time of archival and finalStatus is the
\* case's status.
C24_ArchivePreservesData ==
    [][(fnResult'.calls # fnResult.calls /\ Archived') =>
          /\ \A k \in PreservedFields :
                lastEntry'.preservedData[k] =
                   IF fnArgs'[k].tag = "value" THEN fnArgs'[k]
                   ELSE IF k \in {"hodApproval", "itProcessing"} THEN jsNull
                   ELSE jsEmpty
          /\ lastEntry'.completedAt = now
          /\ lastEntry'.finalStatus = fnArgs'.status
          /\ lastEntry'.formData = fnArgs'
      ]_vars

\* a case with all five fields filled was archived after another entry
C24_Witness ==
    /\ Archived
    /\ Len(storedHistory(fnResult.file)) = 2
    /\ \A k \in PreservedFields :
          fnArgs[k].tag = "value" /\ fnArgs[k].v > 0
                /\ lastEntry.preservedData[k] = fnArgs[k]
    /\ lastEntry.finalStatus = IT_COMPLETED

IsPrefix(s, t) == Len(s) <= Len(t) /\ \A i \in 1..Len(s) : t[i] = s[i]

\* C25: the history collection is append-only: no step removes or changes a
\* stored entry, and every archival that succeeds adds exactly one entry at
\* the end, also when the load of the history store failed or gave no array.
C25_HistoryAppendOnly ==
    [][/\ IsPrefix(storedHistory(fnResult.file), storedHistory(fnResult'.file))
       /\ (fnResult'.calls # fnResult.calls /\ Archived') =>
             /\ Len(storedHistory(fnResult'.file))
                   = Len(storedHistory(fnResult.file)) + 1
             /\ lastEntry' = historyEntry(fnArgs', now)
      ]_vars

\* the employee's records of the active store
OwnActive(e) == {i \in 1..Len(fnArgs.active) : fnArgs.active[i].employeeId = e}

\* the employee's archived cases that carry certificates
OwnArchived(e) ==
    {i \in 1..Len(fnArgs.history) :
        fnArgs.history[i].employeeId = e /\ fnArgs.history[i].certificates # <<>>}

ListedWith(source) ==
    {i \in 1..Len(fnResult.certificates) : fnResult.certificates[i].source = source}

\* the employee has 2 active and 3 historical certificates, the historical
\* ones from distinct archived cases, five certificates in all
TwoActiveThreeHistorical(e) ==
    /\ Cardinality(OwnActive(e)) = 2
    /\ Cardinality(OwnArchived(e)) = 3
    /\ \A i, j \in OwnArchived(e) :
          i # j => fnArgs.history[i].formId # fnArgs.history[j].formId
    /\ \A i \in OwnActive(e), j \in OwnArchived(e) :
          fnArgs.active[i].formId # fnArgs.history[j].formId

NewestFirst(certificates) ==
    \A i, j \in 1..Len(certificates) :
        i < j => certificateDate(certificates[i]) >= certificateDate(certificates[j])

\* C26: an employee with 2 active certificates and 3 historical certificates
\* from distinct archived cases is shown exactly 5 entries: the 2 active ones
\* tagged 'active', the 3 historical ones tagged 'history', none of another
\* employee, newest first.
C26_FiveCertificatesListed ==
    \A e \in Employees :
        (/\ fnResult.op = "list"
         /\ fnResult.employeeId = e
         /\ TwoActiveThreeHistorical(e))
        => /\ fnResult.code = 200
           /\ Len(fnResult.certificates) = 5
           /\ {fnResult.certificates[i].id : i \in ListedWith("active")}
                 = {fnArgs.active[i].id : i \in OwnActive(e)}
           /\ Cardinality(ListedWith("active")) = 2
           /\ {fnResult.certificates[i].id : i \in ListedWith("history")}
                 = {historicalCertId(fnArgs.history[i].formId, DISPOSAL) :
                       i \in OwnArchived(e)}
           /\ Cardinality(ListedWith("history")) = 3
           /\ \A i \in 1..Len(fnResult.certificates) :
                 CaseOwner[fnResult.certificates[i].formId] = e
           /\ NewestFirst(fnResult.certificates)

\* E1, with such stores that also hold certificates of E2, was shown the list,
\* whose dates are not all the same
C26_Witness ==
    /\ fnResult.op = "list"
    /\ fnResult.employeeId = "E1"
    /\ TwoActiveThreeHistorical("E1")
    /\ OwnActive("E2") # {}
    /\ OwnArchived("E2") # {}
    /\ Len(fnResult.certificates) = 5
    /\ certificateDate(fnResult.certificates[1]) > certificateDate(fnResult.certificates[5])

\* C27: the list is de-duplicated by a stable composite id: a certificate (of
\* one case and form type) that is in the active store and in a history
\* snapshot, or in two history entries of the same case, is listed once, and
\* the ids of the listed entries are pairwise distinct.
C27_ListIsDeduplicated ==
    (fnResult.op = "list" /\ fnResult.code = 200) =>
        \A i, j \in 1..Len(fnResult.certificates) :
            i # j =>
                /\ fnResult.certificates[i].id # fnResult.certificates[j].id
                /\ <<fnResult.certificates[i].formId, fnResult.certificates[i].formType>>
                      # <<fnResult.certificates[j].formId, fnResult.certificates[j].formType>>

\* the stored certificates an id names, with their owners
OwnersOfId(certId) ==
    {fnArgs.active[i].employeeId :
        i \in {k \in 1..Len(fnArgs.active) : fnArgs.active[k].id = certId}}
    \cup {fnArgs.history[i].employeeId :
             i \in {k \in 1..Len(fnArgs.history) :
                       /\ fnArgs.history[k].certificates # <<>>
                       /\ historicalCertId(fnArgs.history[k].formId, DISPOSAL) = certId}}

\* C28: a download whose id resolves to a certificate of another employee is
\* answered 403 (forbidden), and a download whose id matches no certificate is
\* answered 404 (not found).
C28_ForeignCertificateForbidden ==
    (fnResult.op = "download" /\ fnResult.employeeId \in Employees) =>
        /\ (OwnersOfId(fnResult.certId) # {}
               /\ fnResult.employeeId \notin OwnersOfId(fnResult.certId))
              => fnResult.code = 403
        /\ OwnersOfId(fnResult.certId) = {} => fnResult.code = 404

\* the employee's current (latest) case is rejected and none of the employee's
\* cases is active
CurrentCaseRejected(e) ==
    /\ includesRejected(getLatestFormForEmployee(storedForms, e, null).status)
    /\ getLatestFormForEmployee(storedForms, e, activeStatuses) = nullForm

\* C29: when the employee's case has a status containing "rejected" in any
\* letter case, assigned-forms and dashboard-status answer applicationStatus
\* 'rejected' with no assigned forms and canSubmitNew true and leave the store
\* as it is, and a valid submission of that employee that follows succeeds.
C29_RejectedViewAllowsResubmission ==
    [][\A e \in Employees :
          CurrentCaseRejected(e) =>
             /\ (fnResult.view = "none" /\ fnResult'.view # "none" /\ fnResult'.user = e)
                   => /\ fnResult'.code = 200
                      /\ fnResult'.applicationStatus = "rejected"
                      /\ fnResult'.assignedForms = <<>>
                      /\ fnResult'.canSubmitNew
                      /\ pendingFile' = pendingFile
             /\ (/\ Served("submit")
                 /\ IsValidSubmit(req')
                 /\ SubmitEmployee(req') = e
                 /\ req'.saveOk)
                   => /\ resp'.code = 200
                      /\ IsFreshCase(storedForms'[Len(storedForms')], e)
      ]_vars

\* C30: a notify call returns without raising an error, whether the employee
\* is connected or not, whether a send to the socket fails, and whether the
\* write of the notification log fails.
C30_NotifyNeverThrows == ~fnResult.thrown

\* a call to a connected employee returned although both sends and the write
\* of the log failed: the notification was queued and not logged
C30_Witness ==
    /\ fnResult.calls > 0
    /\ ~fnResult.thrown
    /\ fnArgs.realTimeFails /\ fnArgs.browserFails /\ fnArgs.saveFails
    /\ isOpen(fnResult.manager, fnArgs.n.employeeId)
    /\ fnResult.manager.queue # <<>>
    /\ loadNotifications(fnResult.manager.log) = <<>>

\* the callers in flight whose requests are for the same employee's case
SameCase(i, j) == i # j /\ fnArgs[i].r.user = fnArgs[j].r.user

\* C31 as stated: the load-modify-save steps of two requests for the same case
\* interleave, so that the later write discards the earlier update: when one
\* handler has loaded the collection and not yet saved it, the handler of
\* another request in flight can take its step.
C31_Original ==
    \A i, j \in DOMAIN fnArgs :
        (SameCase(i, j) /\ fnArgs[i].pc = "loaded" /\ fnArgs[j].pc = "received")
            => ENABLED HandlerLoads(j)

\* C31 (amended): the handlers of overlapping requests do not interleave, so
\* every handler saves the collection as the last write left it, changed only
\* by its own update: no earlier update is discarded.
C31_NoUpdateDiscarded ==
    [][fnResult' # fnResult =>
          LET i == fnResult'[Len(fnResult')]
              result == handlerOutcome(loadForms(pendingFile), fnArgs[i].r, now)
          IN  /\ fnArgs[i].allForms = loadForms(pendingFile)
              /\ resp' = result.reply
              /\ loadForms(pendingFile') = result.forms]_vars

\* two requests of E1 were in flight together, the later one was served
\* first, and the case holds the update of each
C31_Witness ==
    /\ fnResult = <<2, 1>>
    /\ fnArgs[1].r.op = "save" /\ fnArgs[2].r.op = "save"
    /\ fnArgs[1].r.reqKey = "disposalForm" /\ fnArgs[2].r.reqKey = "efileForm"
    /\ loadForms(pendingFile)[1].formResponses["disposalFormData"] = "o1"
    /\ loadForms(pendingFile)[1].formResponses["efileFormData"] = "o1"

\* C32: a partial save or final submit issued by employee E changes no field
\* of a case that belongs to a different employee.
C32_OnlyOwnCaseModified ==
    [][(Served("save") \/ Served("final-submit")) =>
          \A i \in Indices(storedForms) :
              storedForms[i].employeeId # req'.user
                  => /\ i \in Indices(storedForms')
                     /\ storedForms'[i] = storedForms[i]]_vars

\* C33: a successful submission removes or alters no stored case: the
\* persisted collection after it is the collection before it plus the one
\* new case, also when the load failed or answered a non-array value.
C33_SubmissionKeepsStoredCases ==
    [][(Served("submit") /\ resp'.code = 200) =>
          /\ Len(storedForms') = Len(storedForms) + 1
          /\ SubSeq(storedForms', 1, Len(storedForms)) = storedForms]_vars

\* C34: the case created by a submission is owned by the authenticated
\* requester: its employeeId is the employee id of the request's session,
\* whatever the request body contains.
C34_NewCaseOwnedByRequester ==
    [][(Served("submit") /\ resp'.code = 200) =>
          LET created == storedForms'[Len(storedForms')]
          IN  /\ created.employeeId = req'.user
              /\ created.submittedBy = req'.user]_vars

\* the stored certificates an id names that belong to the employee, as the
\* download would resolve them
StoredFor(certId, e) ==
    {resolved(fnArgs.active[i].id, e, fnArgs.active[i].filepath, "active") :
        i \in {k \in 1..Len(fnArgs.active) :
                  fnArgs.active[k].id = certId /\ fnArgs.active[k].employeeId = e}}
    \cup {resolved(certId, e, fnArgs.history[i].certificates[1].filepath, "history") :
             i \in {k \in 1..Len(fnArgs.history) :
                       /\ fnArgs.history[k].employeeId = e
                       /\ fnArgs.history[k].certificates # <<>>
                       /\ historicalCertId(fnArgs.history[k].formId, DISPOSAL) = certId}}

\* C35: a download by employee E resolves to, and streams the file of, a
\* stored certificate that the id names and that E owns, for active ids and
\* hist_ ids; an id that names only certificates of other employees streams
\* nothing.
C35_DownloadsOwnCertificateOnly ==
    fnResult.op = "download" =>
        /\ fnResult.code = 200 =>
              /\ Len(fnResult.certificates) = 1
              /\ fnResult.certificates[1].employeeId = fnResult.employeeId
              /\ fnResult.certificates[1] \in StoredFor(fnResult.certId, fnResult.employeeId)
        /\ fnResult.employeeId \notin OwnersOfId(fnResult.certId) => fnResult.code # 200

\* E1 downloads the certificate of the history that an id names which also
\* names a certificate of E2, stored before E1's
C35_Witness ==
    /\ fnResult.op = "download" /\ fnResult.code = 200
    /\ fnResult.employeeId = "E1"
    /\ fnResult.certId = historicalCertId("F2", DISPOSAL)
    /\ fnResult.source = "history"
    /\ OwnersOfId(fnResult.certId) = {"E1", "E2"}
    /\ \E i \in 1..Len(fnArgs.active) : fnArgs.active[i].employeeId = "E2"

\* the generations whose promise was fulfilled with the path
SuccessfulPaths ==
    {fnResult.gens[g].filePath :
        g \in {h \in Generations : fnResult.gens[h].promise = "resolved"}}

\* C36: once a unit has ended in failure and its stream is closed, the file it
\* created is no longer in the certificate directory, unless the path is that
\* of an artifact reported as successful.
C36_FailedUnitLeavesNoFile ==
    \A g \in Generations :
        LET gen == fnResult.gens[g]
        IN  (gen.promise = "rejected" /\ gen.pc = "closed")
                => (gen.filePath \in fnResult.dir.present
                        => gen.filePath \in SuccessfulPaths)

\* the entries of the queue that are for the employee
QueuedFor(manager, e) == Len(SelectSeq(manager.queue, LAMBDA n : n.employeeId = e))

\* C37: a queued notification leaves the queue only when it has been sent on
\* the employee's open connection or has expired: a step that is not the
\* removal of expired entries takes no more entries of an employee out of the
\* queue than it sent to that employee's open connection; in particular the
\* flush on identify removes no notification whose send failed.
C37_QueuedUntilSentOrExpired ==
    [][\A e \in Employees :
          LET removed == QueuedFor(fnResult.manager, e) - QueuedFor(fnResult'.manager, e)
          IN  removed > 0 =>
                 \/ \E k \in 1..Len(fnResult.manager.queue) : CleanupExpired(k)
                 \/ /\ isOpen(fnResult'.manager, e)
                    /\ removed <= fnResult'.manager.sent
      ]_vars

\* C38: while an employee has an open connection that has identified itself,
\* connectedClients maps the employee to an open connection (isEmployeeOnline
\* is true), whatever the order of the identify, close and error events of
\* the employee's other connections: an employee who is online stays online
\* for as long as the connection the map holds stays open.
C38_IdentifiedMeansOnline ==
    [][\A e \in Employees :
          (/\ isOpen(fnResult.manager, e)
           /\ fnResult'.manager.sockets[fnResult.manager.connected[e]].readyState = "open")
              => isOpen(fnResult'.manager, e)]_vars

\* the sessions stored in login_sessions.json
storedSessions == loadSessions(pendingFile, FALSE)

\* the step is a call of verifyOTP
VerifyCalled == served' = served + 1 /\ req'.op = "verifyOTP"

\* C39: An issued OTP is single-use and time-limited: a call of verifyOTP
\* succeeds only when, before the call, the session of the token is stored, not
\* verified, not expired and holds the OTP given; between two issuances
\* (createLoginSession or resendOTP) at most one call of verifyOTP on a token
\* succeeds, and every later call on that token reports failure.
C39_OtpSingleUseAndTimeLimited ==
    [][ /\ \A t \in SessionTokens : fnArgs'[t].succeeded <= 1
        /\ VerifyCalled =>
              LET t == req'.sessionToken IN
              /\ resp'.success =>
                    /\ t \in DOMAIN storedSessions
                    /\ ~storedSessions[t].verified
                    /\ now <= storedSessions[t].expiresAt
                    /\ storedSessions[t].otp = req'.otp
              /\ (t \in SessionTokens /\ fnArgs[t].succeeded >= 1) => ~resp'.success
      ]_vars

\* a second call with the OTP that was accepted is turned down as used
C39_Witness ==
    /\ req.op = "verifyOTP"
    /\ req.sessionToken \in DOMAIN storedSessions
    /\ fnArgs[req.sessionToken].succeeded = 1
    /\ req.otp = storedSessions[req.sessionToken].otp
    /\ now <= storedSessions[req.sessionToken].expiresAt
    /\ resp = otpResult(FALSE, "OTP already used")

\* the token has had maxAttempts wrong guesses against the OTP issued last
Exhausted(t) ==
    t \in SessionTokens /\ fnArgs[t].compared - fnArgs[t].succeeded >= maxAttempts

====
